---- MODULE Spec2Model ----
(***************************************************************************)
(* discord.js v13 state layer: Role, Guild and the other structures'       *)
(* _patch routines, the managers' caches that own them, frozen bitfields   *)
(* and the ordering of roles.                                              *)
(*                                                                         *)
(* JavaScript values are encoded as integers: ids, positions, counts and   *)
(* strings are naturals, booleans are False/True, and the two absent       *)
(* values are Undefined and Null.  Objects live in heaps (sequences); a    *)
(* reference is the index of the object, so that two references are the    *)
(* same instance iff they are the same index.                              *)
(***************************************************************************)
EXTENDS Integers, Sequences, FiniteSets, TLC

VARIABLES
    bitfields,   \* heap of BitField instances: [bitfield, frozen]
    roleObjs,    \* heap of Role instances
    rolesCache,  \* guild.roles.cache: key -> reference into roleObjs
    guild,       \* the Guild instance held by client.guilds.cache under GuildKey
    ret,         \* what the last operation returned (a reference, or Null)
    err,         \* the error the last operation threw ("" when it returned)
    last,        \* the last operation and its arguments
    entity,      \* the ClientUser or channel instance under patch (SpecPatch)
    kind,        \* the structure a behaviour of SpecPatch patches
    keys,        \* the payload keys a behaviour of SpecPatch draws from
    inflight,    \* the fetches that await their response (SpecGuild)
    channels,    \* guild.channels.cache: id -> GuildChannel
    member,      \* the guild member whose permissions are resolved
    now          \* Date.now()

vars == <<bitfields, roleObjs, rolesCache, guild, ret, err, last, entity, kind, keys,
          inflight, channels, member, now>>

\* ------------------------------------------------------------ values

\* the value of a property that was never assigned, or of an absent key
Undefined == -1
Null == -2
False == 0
True == 1

\* bounds of the model
MaxRoleObjs == 2
MaxBitFields == 2
\* the Role instances a behaviour of SpecOrder allocates
MaxSiblings == 3

\* the largest limit of listeners a behaviour sets or reaches
MaxListeners == 11

\* the largest number of GuildMember instances a behaviour constructs
MaxMemberObjs == 3

EmptyData == [k \in {} |-> 0]

\* 'key' in data
Has(data, key) == key \in DOMAIN data

\* data.key
Get(data, key) == IF key \in DOMAIN data THEN data[key] ELSE Undefined

\* JavaScript truthiness of a scalar
Truthy(v) == v \notin {Undefined, Null, False}

\* a ?? b
Coalesce(a, b) == IF a \in {Undefined, Null} THEN b ELSE a

\* the payload value null where an object is expected
NullObject == [null |-> TRUE]

\* JavaScript truthiness of an object-or-null
IsObject(v) == ~Has(v, "null")

\* an object-valued property: unset (undefined) or set to v
Unset(v) == [set |-> FALSE, v |-> v]
SetTo(v) == [set |-> TRUE, v |-> v]

\* ------------------------------------------------------------ BitField

RECURSIVE BigIntOf(_, _)
\* BigInt("<decimal digits>"): the digits read left to right, acc the value so far
BigIntOf(digits, acc) ==
    IF digits = <<>> THEN acc
    ELSE BigIntOf(Tail(digits), 10 * acc + Head(digits))

BigInt(digits) == BigIntOf(digits, 0)

\* new BitField(bits): a mutable instance
NewBitField(bits) == [bitfield |-> bits, frozen |-> FALSE]

\* bitfield.freeze()
Freeze(b) == [b EXCEPT !.frozen = TRUE]

RECURSIVE BitOr(_, _)
\* a | b
BitOr(a, b) ==
    IF a = 0 THEN b
    ELSE IF b = 0 THEN a
    ELSE (IF a % 2 = 1 \/ b % 2 = 1 THEN 1 ELSE 0) + 2 * BitOr(a \div 2, b \div 2)

RECURSIVE BitAndNot(_, _)
\* a & ~b
BitAndNot(a, b) ==
    IF a = 0 THEN 0
    ELSE (IF a % 2 = 1 /\ b % 2 = 0 THEN 1 ELSE 0) + 2 * BitAndNot(a \div 2, b \div 2)

\* ------------------------------------------------------------ Role

NullTags == [null |-> TRUE, botId |-> Undefined, integrationId |-> Undefined,
             premiumSubscriberRole |-> Undefined]

\* the tags object Role._patch builds from data.tags
TagsOf(tags) ==
    [null |-> FALSE,
     botId |-> IF Has(tags, "bot_id") THEN tags["bot_id"] ELSE Undefined,
     integrationId |-> IF Has(tags, "integration_id") THEN tags["integration_id"] ELSE Undefined,
     premiumSubscriberRole |-> IF Has(tags, "premium_subscriber") THEN True ELSE Undefined]

\* the Role the constructor has built before it calls _patch
NewRole ==
    [id |-> Undefined, name |-> Undefined, color |-> Undefined, hoist |-> Undefined,
     rawPosition |-> Undefined, permissions |-> Undefined, managed |-> Undefined,
     mentionable |-> Undefined, icon |-> Null, unicodeEmoji |-> Null, tags |-> NullTags]

\* mutant: the new Permissions instance is not frozen
RolePatchNoFreeze(st, r, data) ==
    LET st1 == IF Has(data, "permissions")
               THEN [st EXCEPT !.bitfields =
                        Append(@, NewBitField(BigInt(data["permissions"])))]
               ELSE st
        o == st.roleObjs[r]
    IN  [st1 EXCEPT !.roleObjs[r] =
            [o EXCEPT !.id = Get(data, "id"),
                      !.permissions = IF Has(data, "permissions")
                                      THEN Len(st1.bitfields) ELSE @]]

\* role._patch(data) on the Role at reference r of state st
RolePatch(st, r, data) ==
    LET st1 == IF Has(data, "permissions")
               THEN [st EXCEPT !.bitfields =
                        Append(@, Freeze(NewBitField(BigInt(data["permissions"]))))]
               ELSE st
        o == st.roleObjs[r]
        o1 == [o EXCEPT
                 !.id = Get(data, "id"),
                 !.name = IF Has(data, "name") THEN data["name"] ELSE @,
                 !.color = IF Has(data, "color") THEN data["color"] ELSE @,
                 !.hoist = IF Has(data, "hoist") THEN data["hoist"] ELSE @,
                 !.rawPosition = IF Has(data, "position") THEN data["position"] ELSE @,
                 !.permissions = IF Has(data, "permissions") THEN Len(st1.bitfields) ELSE @,
                 !.managed = IF Has(data, "managed") THEN data["managed"] ELSE @,
                 !.mentionable = IF Has(data, "mentionable") THEN data["mentionable"] ELSE @,
                 !.icon = IF Has(data, "icon") THEN data["icon"] ELSE @,
                 !.unicodeEmoji = IF Has(data, "unicode_emoji") THEN data["unicode_emoji"] ELSE @,
                 !.tags = IF Has(data, "tags") /\ IsObject(data["tags"])
                          THEN TagsOf(data["tags"]) ELSE NullTags]
    IN  [st1 EXCEPT !.roleObjs[r] = o1]

\* new Role(client, data, guild): allocates the instance and patches it
RoleConstructor(st, data) ==
    RolePatch([st EXCEPT !.roleObjs = Append(@, NewRole)], Len(st.roleObjs) + 1, data)

\* ------------------------------------------------------------ RoleManager

\* cache.set(key, ref)
CacheSet(cache, key, ref) ==
    [k \in DOMAIN cache \cup {key} |-> IF k = key THEN ref ELSE cache[k]]

\* cache.delete(key)
CacheDelete(cache, key) == [k \in DOMAIN cache \ {key} |-> cache[k]]

\* mutant: the lookup of an existing entry is lost, every add constructs
RolesAddAlwaysNew(st, data, cache) ==
    LET st1 == RoleConstructor(st, data)
        r == Len(st1.roleObjs)
    IN  [st1 EXCEPT !.rolesCache = IF cache THEN CacheSet(@, Get(data, "id"), r) ELSE @,
                    !.ret = r, !.err = ""]

\* guild.roles._add(data, cache)
RolesAdd(st, data, cache) ==
    LET id == Get(data, "id") IN
    IF id \in DOMAIN st.rolesCache
    THEN [RolePatch(st, st.rolesCache[id], data) EXCEPT !.ret = st.rolesCache[id], !.err = ""]
    ELSE LET st1 == RoleConstructor(st, data)
             r == Len(st1.roleObjs)
         IN  [st1 EXCEPT !.rolesCache = IF cache THEN CacheSet(@, id, r) ELSE @,
                         !.ret = r, !.err = ""]

\* guild.roles.cache.delete(id)
RolesRemove(st, id) ==
    [st EXCEPT !.rolesCache = CacheDelete(@, id), !.ret = Null, !.err = ""]

\* guild.roles.resolve(id): the cached role of the id, or null
RolesResolve(st, id) == IF id \in DOMAIN st.rolesCache THEN st.rolesCache[id] ELSE Null

\* mutant: the deletion also disposes of the instance, resetting its fields
RoleDeleteDisposing(st, r) ==
    [RolesRemove(st, st.roleObjs[r].id)
        EXCEPT !.roleObjs[r] = [NewRole EXCEPT !.id = st.roleObjs[r].id], !.ret = r, !.err = ""]

\* role.delete(reason) on the Role at reference r, the request accepted: the
\* manager drops the cache entry of the role's id, the role itself is returned
RoleDelete(st, r) ==
    [RolesRemove(st, st.roleObjs[r].id) EXCEPT !.ret = r, !.err = ""]

\* ------------------------------------------------------------ BitField operations

\* mutant: add does not look at the frozen flag
BitFieldAddUnchecked(st, ref, bits) ==
    [st EXCEPT !.bitfields[ref].bitfield = BitOr(@, bits), !.ret = ref, !.err = ""]

\* bitfield.add(bits) on the instance at reference ref
BitFieldAdd(st, ref, bits) ==
    IF st.bitfields[ref].frozen
    THEN [st EXCEPT !.ret = Null, !.err = "Immutable"]
    ELSE [st EXCEPT !.bitfields[ref].bitfield = BitOr(@, bits), !.ret = ref, !.err = ""]

\* bitfield.remove(bits) on the instance at reference ref
BitFieldRemove(st, ref, bits) ==
    IF st.bitfields[ref].frozen
    THEN [st EXCEPT !.ret = Null, !.err = "Immutable"]
    ELSE [st EXCEPT !.bitfields[ref].bitfield = BitAndNot(@, bits), !.ret = ref, !.err = ""]

\* new Permissions(bits) by a caller
BitFieldNew(st, bits) ==
    [st EXCEPT !.bitfields = Append(@, NewBitField(bits)),
               !.ret = Len(st.bitfields) + 1, !.err = ""]

\* bitfield.freeze() by a caller
BitFieldFreeze(st, ref) ==
    [st EXCEPT !.bitfields[ref] = Freeze(@), !.ret = ref, !.err = ""]

\* ------------------------------------------------------------ Guild

\* the enum tables of util/Constants.js: the name at an index, as a number
\* that is not the index
PremiumTiers(n) == 100 + n
ExplicitContentFilterLevels(n) == 200 + n
MFALevels(n) == 300 + n
DefaultMessageNotificationLevels(n) == 400 + n

\* new Date(iso).getTime(): payload dates are in seconds, timestamps in ms
DateGetTime(seconds) == 1000 * seconds

\* Boolean(v)
Boolean(v) == IF Truthy(v) THEN True ELSE False

\* data.max_presences ?? 25_000
DefaultMaximumPresences == 25000

\* AnonymousGuild._patch(data) (super._patch): presence-based merge
AnonymousGuildPatch(g, data) ==
    [g EXCEPT
       !.description = IF Has(data, "description") THEN data["description"] ELSE @,
       !.vanityURLCode = IF Has(data, "vanity_url_code") THEN data["vanity_url_code"] ELSE @]

\* the plain manager caches of a guild: id -> last merged payload
SimpleAdd(cache, data) ==
    CacheSet(cache, Get(data, "id"),
             IF Get(data, "id") \in DOMAIN cache THEN data @@ cache[Get(data, "id")] ELSE data)

RECURSIVE SimpleAddAll(_, _)
SimpleAddAll(cache, list) ==
    IF list = <<>> THEN cache ELSE SimpleAddAll(SimpleAdd(cache, Head(list)), Tail(list))

RECURSIVE RolesAddAll(_, _)
\* for (const role of data.roles) this.roles._add(role)
RolesAddAll(st, list) ==
    IF list = <<>> THEN st ELSE RolesAddAll(RolesAdd(st, Head(list), TRUE), Tail(list))

\* the Guild the constructor has built before it calls _patch: BaseGuild's
\* constructor has copied id, name, icon and features
NewGuild(data) ==
    [id |-> Get(data, "id"), name |-> Get(data, "name"), icon |-> Get(data, "icon"),
     features |-> IF Has(data, "features") THEN data["features"] ELSE {},
     description |-> Undefined, vanityURLCode |-> Undefined,
     available |-> Undefined, discoverySplash |-> Undefined, memberCount |-> Undefined,
     large |-> Undefined, premiumProgressBarEnabled |-> Undefined,
     applicationId |-> Undefined, afkTimeout |-> Undefined, afkChannelId |-> Undefined,
     systemChannelId |-> Undefined, premiumTier |-> Undefined, widgetEnabled |-> Undefined,
     widgetChannelId |-> Undefined, explicitContentFilter |-> Undefined,
     mfaLevel |-> Undefined, joinedTimestamp |-> Undefined,
     defaultMessageNotifications |-> Undefined, systemChannelFlags |-> Undefined,
     maximumMembers |-> Undefined, maximumPresences |-> Undefined,
     maxVideoChannelUsers |-> Undefined, maxStageVideoChannelUsers |-> Undefined,
     approximateMemberCount |-> Undefined, approximatePresenceCount |-> Undefined,
     vanityURLUses |-> Undefined, rulesChannelId |-> Undefined,
     publicUpdatesChannelId |-> Undefined, preferredLocale |-> Undefined,
     ownerId |-> Undefined, shardId |-> Undefined,
     members |-> EmptyData, stageInstances |-> EmptyData,
     scheduledEvents |-> EmptyData, voiceStates |-> EmptyData]

\* if (key in data) this.field = data[key]
Merge(old, data, key) == IF Has(data, key) THEN data[key] ELSE old

\* mutant: else this.field = null
MergeOrNullResetting(old, data, key) == IF Has(data, key) THEN data[key] ELSE Null

\* if (key in data) this.field = data[key]; else this.field ??= null
MergeOrNull(old, data, key) == IF Has(data, key) THEN data[key] ELSE Coalesce(old, Null)

\* the fields of the guild that Guild._patch(data) assigns from scalars
GuildPatchFields(g, data) ==
    [g EXCEPT
       !.id = Get(data, "id"),
       !.name = Merge(@, data, "name"),
       !.icon = Merge(@, data, "icon"),
       !.available = IF Has(data, "unavailable")
                     THEN (IF Truthy(data["unavailable"]) THEN False ELSE True)
                     ELSE Coalesce(@, True),
       !.discoverySplash = Merge(@, data, "discovery_splash"),
       !.memberCount = Merge(@, data, "member_count"),
       !.large = IF Has(data, "large") THEN Boolean(data["large"]) ELSE @,
       !.premiumProgressBarEnabled = Merge(@, data, "premium_progress_bar_enabled"),
       !.applicationId = Merge(@, data, "application_id"),
       !.afkTimeout = Merge(@, data, "afk_timeout"),
       !.afkChannelId = Merge(@, data, "afk_channel_id"),
       !.systemChannelId = Merge(@, data, "system_channel_id"),
       !.premiumTier = IF Has(data, "premium_tier")
                       THEN PremiumTiers(data["premium_tier"]) ELSE @,
       !.widgetEnabled = Merge(@, data, "widget_enabled"),
       !.widgetChannelId = Merge(@, data, "widget_channel_id"),
       !.explicitContentFilter = IF Has(data, "explicit_content_filter")
                                 THEN ExplicitContentFilterLevels(data["explicit_content_filter"])
                                 ELSE @,
       !.mfaLevel = IF Has(data, "mfa_level") THEN MFALevels(data["mfa_level"]) ELSE @,
       !.joinedTimestamp = IF Has(data, "joined_at") THEN DateGetTime(data["joined_at"]) ELSE @,
       !.defaultMessageNotifications =
            IF Has(data, "default_message_notifications")
            THEN DefaultMessageNotificationLevels(data["default_message_notifications"])
            ELSE @,
       !.maximumMembers = MergeOrNull(@, data, "max_members"),
       !.maximumPresences = IF Has(data, "max_presences")
                            THEN Coalesce(data["max_presences"], DefaultMaximumPresences)
                            ELSE Coalesce(@, Null),
       !.maxVideoChannelUsers = MergeOrNull(@, data, "max_video_channel_users"),
       !.maxStageVideoChannelUsers = MergeOrNull(@, data, "max_stage_video_channel_users"),
       !.approximateMemberCount = MergeOrNull(@, data, "approximate_member_count"),
       !.approximatePresenceCount = MergeOrNull(@, data, "approximate_presence_count"),
       !.vanityURLUses = Coalesce(@, Null),
       !.rulesChannelId = Merge(@, data, "rules_channel_id"),
       !.publicUpdatesChannelId = Merge(@, data, "public_updates_channel_id"),
       !.preferredLocale = Merge(@, data, "preferred_locale"),
       !.ownerId = Merge(@, data, "owner_id"),
       !.members = IF Has(data, "members") THEN SimpleAddAll(EmptyData, data["members"]) ELSE @,
       !.stageInstances = IF Has(data, "stage_instances")
                          THEN SimpleAddAll(EmptyData, data["stage_instances"]) ELSE @,
       !.scheduledEvents = IF Has(data, "guild_scheduled_events")
                           THEN SimpleAddAll(EmptyData, data["guild_scheduled_events"]) ELSE @,
       !.voiceStates = IF Has(data, "voice_states")
                       THEN SimpleAddAll(EmptyData, data["voice_states"]) ELSE @]

\* mutant: the roles of the payload are added to the roles already cached
GuildPatchMerging(st, data) ==
    LET st1 == [st EXCEPT !.guild = GuildPatchFields(AnonymousGuildPatch(@, data), data)]
        st2 == IF Has(data, "system_channel_flags")
               THEN [st1 EXCEPT
                       !.bitfields = Append(@, Freeze(NewBitField(data["system_channel_flags"]))),
                       !.guild.systemChannelFlags = Len(st1.bitfields) + 1]
               ELSE st1
    IN  IF Has(data, "roles") THEN RolesAddAll(st2, data["roles"]) ELSE st2

\* guild._patch(data)
GuildPatch(st, data) ==
    LET st1 == [st EXCEPT !.guild = GuildPatchFields(AnonymousGuildPatch(@, data), data)]
        st2 == IF Has(data, "system_channel_flags")
               THEN [st1 EXCEPT
                       !.bitfields = Append(@, Freeze(NewBitField(data["system_channel_flags"]))),
                       !.guild.systemChannelFlags = Len(st1.bitfields) + 1]
               ELSE st1
    IN  IF Has(data, "roles")
        THEN RolesAddAll([st2 EXCEPT !.rolesCache = EmptyData], data["roles"])
        ELSE st2

\* mutant: the payload's channels are not looked at
GuildConstructorIgnoringChannels(st, data) ==
    LET st0 == [st EXCEPT !.guild = NewGuild(data)]
        st1 == IF Truthy(Get(data, "unavailable"))
               THEN [st0 EXCEPT !.guild.available = False]
               ELSE GuildPatch(st0, data)
    IN  [st1 EXCEPT !.guild.shardId = Get(data, "shardId")]

\* new Guild(client, data)
GuildConstructor(st, data) ==
    LET st0 == [st EXCEPT !.guild = NewGuild(data)]
        st1 == IF Truthy(Get(data, "unavailable"))
               THEN [st0 EXCEPT !.guild.available = False]
               ELSE LET p == GuildPatch(st0, data)
                    IN  IF Has(data, "channels") THEN p ELSE [p EXCEPT !.guild.available = False]
    IN  [st1 EXCEPT !.guild.shardId = Get(data, "shardId")]

\* client.guilds._add(data) for the id of the guild the cache holds: the
\* entry is patched and returned
GuildsAdd(st, data) == [GuildPatch(st, data) EXCEPT !.ret = Get(data, "id"), !.err = ""]

\* guild.fetch(), from the response on
GuildFetch(st, data) == GuildsAdd(st, data)

\* this.features.includes('VANITY_URL')
HasVanityFeature(g) == "VANITY_URL" \in g.features

\* mutant: the response is handed to _patch
GuildFetchVanityDataPatched(st, data) ==
    [GuildPatch(st, data) EXCEPT !.ret = Null, !.err = ""]

\* guild.fetchVanityData(), from the response on
GuildFetchVanityData(st, data) ==
    [st EXCEPT !.guild.vanityURLCode = Get(data, "code"),
               !.guild.vanityURLUses = Get(data, "uses"),
               !.ret = Null, !.err = ""]

\* guild.fetchWidgetSettings(), from the response on
GuildFetchWidgetSettings(st, data) ==
    [st EXCEPT !.guild.widgetEnabled = Get(data, "enabled"),
               !.guild.widgetChannelId = Get(data, "channel_id"),
               !.ret = Null, !.err = ""]

\* ------------------------------------------------------------ sorting

\* the comparator of Util.discordSort for roles: rawPosition ascending, then
\* id ascending, the ids compared as integers of full width
CompareRoles(a, b) ==
    IF a.rawPosition - b.rawPosition # 0 THEN a.rawPosition - b.rawPosition ELSE a.id - b.id

RECURSIVE InsertSorted(_, _, _)
\* one step of the stable sort: ref goes behind every element not above it
InsertSorted(sorted, ref, objs) ==
    IF sorted = <<>> THEN <<ref>>
    ELSE IF CompareRoles(objs[Head(sorted)], objs[ref]) <= 0
         THEN <<Head(sorted)>> \o InsertSorted(Tail(sorted), ref, objs)
         ELSE <<ref>> \o sorted

RECURSIVE CacheValues(_)
\* [...cache.values()]
CacheValues(cache) ==
    IF DOMAIN cache = {} THEN <<>>
    ELSE LET k == CHOOSE x \in DOMAIN cache : \A y \in DOMAIN cache : x <= y
         IN  <<cache[k]>> \o CacheValues(CacheDelete(cache, k))

RECURSIVE SortAll(_, _, _)
SortAll(sorted, refs, objs) ==
    IF refs = <<>> THEN sorted
    ELSE SortAll(InsertSorted(sorted, Head(refs), objs), Tail(refs), objs)

\* Util.discordSort(collection): the references in sorted order
DiscordSort(cache, objs) == SortAll(<<>>, CacheValues(cache), objs)

\* mutant: the cache is returned in the order of its keys
SortedRolesByKey(st) == CacheValues(st.rolesCache)

\* guild._sortedRoles()
SortedRoles(st) == DiscordSort(st.rolesCache, st.roleObjs)

\* array.indexOf(x), -1 when x is not an element
IndexOf(seq, x) ==
    IF \E i \in DOMAIN seq : seq[i] = x
    THEN (CHOOSE i \in DOMAIN seq : seq[i] = x /\ \A j \in DOMAIN seq : seq[j] = x => i <= j) - 1
    ELSE -1

\* mutant: the index is taken in the cache as it is, not in the sorted roles
RolePositionUnsorted(st, r) ==
    LET id == st.roleObjs[r].id
    IN  IndexOf(CacheValues(st.rolesCache),
                IF id \in DOMAIN st.rolesCache THEN st.rolesCache[id] ELSE Undefined)

\* mutant: the index counts from one
RolePositionOneBased(st, r) ==
    LET sorted == SortedRoles(st)
        id == st.roleObjs[r].id
    IN  1 + IndexOf(sorted, IF id \in DOMAIN st.rolesCache THEN st.rolesCache[id] ELSE Undefined)

\* mutant: the position is the number of cached roles of a lower rawPosition
RolePositionTied(st, r) ==
    LET id == st.roleObjs[r].id
    IN  IF id \in DOMAIN st.rolesCache
        THEN Cardinality({k \in DOMAIN st.rolesCache :
                 st.roleObjs[st.rolesCache[k]].rawPosition
                     < st.roleObjs[st.rolesCache[id]].rawPosition})
        ELSE -1

\* mutant: a Role whose id is not cached is looked for as itself
RolePositionOfInstance(st, r) ==
    LET sorted == SortedRoles(st)
        id == st.roleObjs[r].id
    IN  IF id \in DOMAIN st.rolesCache THEN IndexOf(sorted, st.rolesCache[id])
        ELSE IndexOf(Append(sorted, r), r)

\* role.position of the Role at reference r
RolePosition(st, r) ==
    LET sorted == SortedRoles(st)
        id == st.roleObjs[r].id
    IN  IndexOf(sorted, IF id \in DOMAIN st.rolesCache THEN st.rolesCache[id] ELSE Undefined)

\* guild.roles.comparePositions(role1, role2): the positions compared, equal
\* positions by id ascending
ComparePositions(st, r1, r2) ==
    IF RolePosition(st, r1) = RolePosition(st, r2)
    THEN st.roleObjs[r1].id - st.roleObjs[r2].id
    ELSE RolePosition(st, r1) - RolePosition(st, r2)

\* mutant: the two roles are handed over in the other order
RoleComparePositionToSwapped(st, r, other) == ComparePositions(st, other, r)

\* role.comparePositionTo(other) of the Role at reference r
RoleComparePositionTo(st, r, other) == ComparePositions(st, r, other)

\* ------------------------------------------------------------ ClientUser

NewUser ==
    [id |-> Undefined, username |-> Undefined, verified |-> Undefined,
     mfaEnabled |-> Undefined, clientToken |-> Undefined]

\* User._patch(data) (super._patch): presence-based merge
UserPatch(u, data) ==
    [u EXCEPT !.id = Get(data, "id"),
              !.username = IF Has(data, "username") THEN data["username"] ELSE @]

\* typeof v === 'boolean'
IsBoolean(v) == v \in {False, True}

\* clientUser._patch(data); clientToken is client.token
ClientUserPatch(u, data) ==
    [UserPatch(u, data) EXCEPT
       !.verified = IF Has(data, "verified") THEN data["verified"] ELSE @,
       !.mfaEnabled = IF Has(data, "mfa_enabled")
                      THEN (IF IsBoolean(data["mfa_enabled"]) THEN data["mfa_enabled"] ELSE Null)
                      ELSE Coalesce(@, Null),
       !.clientToken = IF Has(data, "token") THEN data["token"] ELSE @]

\* new ClientUser(client, data)
ClientUserConstructor(data) == ClientUserPatch(NewUser, data)

\* ------------------------------------------------------------ channels

\* GuildChannel._patch(data) (super._patch): presence-based merge
GuildChannelPatch(c, data) ==
    [c EXCEPT !.id = Get(data, "id"),
              !.name = IF Has(data, "name") THEN data["name"] ELSE @]

\* BaseGuildVoiceChannel._patch(data) (super._patch): presence-based merge
BaseGuildVoiceChannelPatch(c, data) ==
    [GuildChannelPatch(c, data) EXCEPT
       !.bitrate = IF Has(data, "bitrate") THEN data["bitrate"] ELSE @]

\* the VideoQualityModes table of util/Constants.js
VideoQualityModes(n) == 500 + n

NewVoiceChannel(data) ==
    [id |-> Undefined, name |-> Undefined, bitrate |-> Undefined,
     videoQualityMode |-> Undefined, messages |-> EmptyData,
     rateLimitPerUser |-> Undefined, nsfw |-> Boolean(Get(data, "nsfw"))]

\* voiceChannel._patch(data)
VoiceChannelPatch(c, data) ==
    [BaseGuildVoiceChannelPatch(c, data) EXCEPT
       !.videoQualityMode = IF Has(data, "video_quality_mode")
                            THEN VideoQualityModes(data["video_quality_mode"])
                            ELSE Coalesce(@, Null),
       !.messages = IF Has(data, "messages") THEN SimpleAddAll(@, data["messages"]) ELSE @,
       !.rateLimitPerUser = IF Has(data, "rate_limit_per_user")
                            THEN data["rate_limit_per_user"] ELSE @,
       !.nsfw = IF Has(data, "nsfw") THEN data["nsfw"] ELSE @]

\* new VoiceChannel(guild, data, client)
VoiceChannelConstructor(data) == VoiceChannelPatch(NewVoiceChannel(data), data)

NewStageChannel ==
    [id |-> Undefined, name |-> Undefined, bitrate |-> Undefined, topic |-> Undefined]

\* stageChannel._patch(data)
StageChannelPatch(c, data) ==
    [BaseGuildVoiceChannelPatch(c, data) EXCEPT
       !.topic = IF Has(data, "topic") THEN data["topic"] ELSE @]

\* new StageChannel(guild, data, client): the base constructor patches
StageChannelConstructor(data) == StageChannelPatch(NewStageChannel, data)

\* transformGuildForumTag(tag)
TransformGuildForumTag(tag) ==
    [id |-> Get(tag, "id"), name |-> Get(tag, "name"), moderated |-> Get(tag, "moderated"),
     emojiId |-> Get(tag, "emoji_id"), emojiName |-> Get(tag, "emoji_name")]

\* transformGuildDefaultReaction(defaultReaction)
TransformGuildDefaultReaction(r) ==
    [null |-> FALSE, emojiId |-> Get(r, "emoji_id"), emojiName |-> Get(r, "emoji_name")]

NullReaction == [null |-> TRUE, emojiId |-> Undefined, emojiName |-> Undefined]

NewForumChannel ==
    [id |-> Undefined, name |-> Undefined, availableTags |-> Unset(<<>>),
     defaultReactionEmoji |-> Unset(NullReaction),
     defaultThreadRateLimitPerUser |-> Undefined]

\* mutant: the tags of the payload are appended to the tags already there
ForumChannelPatchAppend(c, data) ==
    [GuildChannelPatch(c, data) EXCEPT
       !.availableTags =
            IF Has(data, "available_tags")
            THEN SetTo(@.v \o [i \in DOMAIN data["available_tags"] |->
                                 TransformGuildForumTag(data["available_tags"][i])])
            ELSE IF @.set THEN @ ELSE SetTo(<<>>)]

\* guildForumChannel._patch(data)
ForumChannelPatch(c, data) ==
    [GuildChannelPatch(c, data) EXCEPT
       !.availableTags =
            IF Has(data, "available_tags")
            THEN SetTo([i \in DOMAIN data["available_tags"] |->
                          TransformGuildForumTag(data["available_tags"][i])])
            ELSE IF @.set THEN @ ELSE SetTo(<<>>),
       !.defaultReactionEmoji =
            IF Has(data, "default_reaction_emoji")
            THEN SetTo(IF IsObject(data["default_reaction_emoji"])
                       THEN TransformGuildDefaultReaction(data["default_reaction_emoji"])
                       ELSE NullReaction)
            ELSE IF @.set THEN @ ELSE SetTo(NullReaction),
       !.defaultThreadRateLimitPerUser =
            IF Has(data, "default_thread_rate_limit_per_user")
            THEN data["default_thread_rate_limit_per_user"]
            ELSE Coalesce(@, Null)]

\* new GuildForumChannel(guild, data, client)
ForumChannelConstructor(data) == ForumChannelPatch(NewForumChannel, data)

\* ------------------------------------------------------------ guild channels

\* ChannelTypes.GUILD_CATEGORY of util/Constants.js: the type of a category
\* as channel.type carries it
GuildCategoryType == "GUILD_CATEGORY"

\* the GuildChannel that client.channels._add(data, guild) constructs or patches
ChannelsAdd(cache, data) ==
    LET id == data["id"]
        old == IF id \in DOMAIN cache THEN cache[id]
               ELSE [id |-> id, type |-> data["type"], rawPosition |-> Undefined,
                     parentId |-> Null]
    IN  CacheSet(cache, id,
                 [old EXCEPT
                    !.rawPosition = IF Has(data, "position") THEN data["position"] ELSE @,
                    !.parentId = IF Has(data, "parent_id") THEN data["parent_id"] ELSE @])

\* channel.parent: the cached channel under parentId (its key), or null
ChannelParent(cache, c) == IF c.parentId \in DOMAIN cache THEN c.parentId ELSE Null

\* ['GUILD_TEXT', 'GUILD_NEWS'].includes(type)
IsTextOrNews(type) == type \in {"GUILD_TEXT", "GUILD_NEWS"}

\* the filter of guild._sortedChannels(channel): the keys that pass
SortedChannelsFilter(cache, channel) ==
    LET category == channel.type = GuildCategoryType
    IN  {k \in DOMAIN cache :
            /\ IF IsTextOrNews(channel.type) THEN IsTextOrNews(cache[k].type)
               ELSE cache[k].type = channel.type
            /\ (category \/ ChannelParent(cache, cache[k]) = ChannelParent(cache, channel))}

\* mutant: for a category, the channels whose parent it is
SortedChannelsOfCategory(cache, channel) ==
    IF channel.type = GuildCategoryType
    THEN DiscordSort([k \in {j \in DOMAIN cache : cache[j].parentId = channel.id} |-> k],
                     cache)
    ELSE DiscordSort([k \in SortedChannelsFilter(cache, channel) |-> k], cache)

\* mutant: the channels are not scoped to the parent
SortedChannelsAnyParent(cache, channel) ==
    DiscordSort([k \in {j \in DOMAIN cache :
                          IF IsTextOrNews(channel.type) THEN IsTextOrNews(cache[j].type)
                          ELSE cache[j].type = channel.type} |-> k], cache)

\* guild._sortedChannels(channel): the keys in sorted order
SortedChannels(cache, channel) ==
    DiscordSort([k \in SortedChannelsFilter(cache, channel) |-> k], cache)

\* ------------------------------------------------------------ permissions

\* Permissions.FLAGS of util/Permissions.js, the flags of concern here
Flags == [ADMINISTRATOR |-> 8, VIEW_CHANNEL |-> 1024, SPEAK |-> 2097152]

\* Permissions.ALL: every flag
AllPermissions == Flags.ADMINISTRATOR + Flags.VIEW_CHANNEL + Flags.SPEAK

\* the capabilities a communication restriction leaves
AlwaysAvailable == Flags.VIEW_CHANNEL

\* a & b
BitAnd(a, b) == BitAndNot(a, BitAndNot(a, b))

\* permissions.has(flag, false)
HasFlag(bits, flag) == BitAnd(bits, flag) = flag

RECURSIVE BitOrAll(_)
\* the | of a set of bitfield values
BitOrAll(S) ==
    IF S = {} THEN 0
    ELSE LET x == CHOOSE y \in S : TRUE IN BitOr(x, BitOrAll(S \ {x}))

\* role.permissions.bitfield of the cached role of an id, 0n without one
RoleBits(st, id) ==
    IF id \in DOMAIN st.rolesCache /\ st.roleObjs[st.rolesCache[id]].permissions # Undefined
    THEN st.bitfields[st.roleObjs[st.rolesCache[id]].permissions].bitfield
    ELSE 0

\* step 1: the roles held and the everyone role, whose id is the guild's
BasePermissions(st, held) ==
    BitOr(BitOrAll({RoleBits(st, id) : id \in held}), RoleBits(st, st.guild.id))

\* one step of the overwrites: the deny bits go, then the allow bits come
ApplyOverwrite(bits, deny, allow) == BitOr(BitAndNot(bits, deny), allow)

\* the overwrite as it takes effect: a bit set in both allow and deny is denied
Effective(ow) == [allow |-> BitAndNot(ow.allow, ow.deny), deny |-> ow.deny]

\* mutant: a bit set in both allow and deny is left in both
OverwriteOfRaw(ch, subject) ==
    IF subject \in DOMAIN ch.permissionOverwrites THEN ch.permissionOverwrites[subject]
    ELSE [allow |-> 0, deny |-> 0]

\* the overwrite of a subject on the channel, without one nothing to apply
OverwriteOf(ch, subject) ==
    IF subject \in DOMAIN ch.permissionOverwrites
    THEN Effective(ch.permissionOverwrites[subject])
    ELSE [allow |-> 0, deny |-> 0]

\* mutant: the overwrite of the member is applied before those of the roles
ApplyOverwritesMemberFirst(st, ch, held, memberId, bits) ==
    LET everyone == OverwriteOf(ch, st.guild.id)
        p1 == ApplyOverwrite(bits, everyone.deny, everyone.allow)
        own == OverwriteOf(ch, memberId)
        p2 == ApplyOverwrite(p1, own.deny, own.allow)
    IN  ApplyOverwrite(p2, BitOrAll({OverwriteOf(ch, id).deny : id \in held}),
                           BitOrAll({OverwriteOf(ch, id).allow : id \in held}))

RECURSIVE ApplyEach(_, _, _)
\* the overwrites of the roles applied one after the other, lowest id first
ApplyEach(ch, held, bits) ==
    IF held = {} THEN bits
    ELSE LET id == CHOOSE x \in held : \A y \in held : x <= y
         IN  ApplyEach(ch, held \ {id},
                       ApplyOverwrite(bits, OverwriteOf(ch, id).deny, OverwriteOf(ch, id).allow))

\* mutant: the overwrites of the roles are applied one role after the other
ApplyOverwritesPerRole(st, ch, held, memberId, bits) ==
    LET everyone == OverwriteOf(ch, st.guild.id)
        p1 == ApplyOverwrite(bits, everyone.deny, everyone.allow)
        p2 == ApplyEach(ch, held, p1)
        own == OverwriteOf(ch, memberId)
    IN  ApplyOverwrite(p2, own.deny, own.allow)

\* step 3: everyone, then the held roles together, then the member
ApplyOverwrites(st, ch, held, memberId, bits) ==
    LET everyone == OverwriteOf(ch, st.guild.id)
        p1 == ApplyOverwrite(bits, everyone.deny, everyone.allow)
        p2 == ApplyOverwrite(p1, BitOrAll({OverwriteOf(ch, id).deny : id \in held}),
                                 BitOrAll({OverwriteOf(ch, id).allow : id \in held}))
        own == OverwriteOf(ch, memberId)
    IN  ApplyOverwrite(p2, own.deny, own.allow)

\* the member is under a communication restriction at the time t
Suspended(m, t) ==
    m.communicationDisabledUntilTimestamp # Null /\ m.communicationDisabledUntilTimestamp > t

\* mutant: the owner and administrators are resolved like everybody else
MemberPermissionsNoShortCircuit(st, ch, m, t) ==
    LET base == BasePermissions(st, m.roles)
        p == ApplyOverwrites(st, ch, m.roles, m.id, base)
    IN  IF Suspended(m, t) THEN BitAnd(p, AlwaysAvailable) ELSE p

\* mutant: the restriction is not looked at
MemberPermissionsNoSuspension(st, ch, m, t) ==
    LET base == BasePermissions(st, m.roles) IN
    IF m.id = st.guild.ownerId \/ HasFlag(base, Flags.ADMINISTRATOR)
    THEN AllPermissions
    ELSE ApplyOverwrites(st, ch, m.roles, m.id, base)

\* channel.permissionsFor(member): the bitfield value of the frozen result
MemberPermissions(st, ch, m, t) ==
    LET base == BasePermissions(st, m.roles) IN
    IF m.id = st.guild.ownerId \/ HasFlag(base, Flags.ADMINISTRATOR)
    THEN AllPermissions
    ELSE LET p == ApplyOverwrites(st, ch, m.roles, m.id, base)
         IN  IF Suspended(m, t) THEN BitAnd(p, AlwaysAvailable) ELSE p

\* channel.rolePermissions(role, checkAdmin): the role as the only role held
RolePermissions(st, ch, r, checkAdmin) ==
    LET held == {st.roleObjs[r].id}
        base == BasePermissions(st, held)
    IN  IF checkAdmin /\ HasFlag(base, Flags.ADMINISTRATOR)
        THEN AllPermissions
        ELSE ApplyOverwrites(st, ch, held, Undefined, base)

\* the result of a lookup that found nothing: null
NotResolved == [found |-> FALSE, channel |-> EmptyData, err |-> ""]

\* mutant: an instance is returned as it is, whichever guild owns it
ChannelsResolvePermissive(st, cache, arg) ==
    IF arg.instance THEN [found |-> TRUE, channel |-> arg.channel, err |-> ""]
    ELSE IF arg.id \in DOMAIN cache THEN [found |-> TRUE, channel |-> cache[arg.id], err |-> ""]
    ELSE NotResolved

\* guild.channels.resolve(channel): an instance is returned as it is after the
\* check of its owner, an id is looked up in the cache, a miss is null
ChannelsResolve(st, cache, arg) ==
    IF arg.instance
    THEN IF arg.channel.guildId = st.guild.id
         THEN [found |-> TRUE, channel |-> arg.channel, err |-> ""]
         ELSE [NotResolved EXCEPT !.err = "WrongScope"]
    ELSE IF arg.id \in DOMAIN cache THEN [found |-> TRUE, channel |-> cache[arg.id], err |-> ""]
    ELSE NotResolved

\* mutant: a channel that does not resolve is taken as one without overwrites
RolePermissionsInNoReject(st, cache, r, arg, checkAdmin) ==
    LET channel == ChannelsResolve(st, cache, arg) IN
    IF channel.err # "" THEN [st EXCEPT !.ret = Null, !.err = channel.err]
    ELSE LET ch == IF channel.found THEN channel.channel ELSE [permissionOverwrites |-> EmptyData]
         IN  [st EXCEPT !.ret = Freeze(NewBitField(RolePermissions(st, ch, r, checkAdmin))),
                        !.err = ""]

\* role.permissionsIn(channel, checkAdmin) of the Role at reference r
RolePermissionsIn(st, cache, r, arg, checkAdmin) ==
    LET channel == ChannelsResolve(st, cache, arg) IN
    IF channel.err # "" THEN [st EXCEPT !.ret = Null, !.err = channel.err]
    ELSE IF ~channel.found THEN [st EXCEPT !.ret = Null, !.err = "GUILD_CHANNEL_RESOLVE"]
    ELSE [st EXCEPT !.ret = Freeze(NewBitField(RolePermissions(st, channel.channel, r, checkAdmin))),
                    !.err = ""]

\* channel.permissionsFor(user): null when the user has no cached member
ChannelPermissionsFor(st, ch, m, t) ==
    IF ~Has(m, "id") THEN Null ELSE Freeze(NewBitField(MemberPermissions(st, ch, m, t)))

\* null < Date.now(): null counts as 0
ToNumber(v) == IF v = Null THEN 0 ELSE v

\* mutant: a restriction that ends now still counts as over
VoiceChannelSpeakableAtEnd(st, ch, me, t) ==
    IF ~Has(me, "id") THEN False
    ELSE LET permissions == MemberPermissions(st, ch, me, t) IN
         IF HasFlag(permissions, Flags.ADMINISTRATOR) THEN True
         ELSE IF ToNumber(me.communicationDisabledUntilTimestamp) <= t
                 /\ HasFlag(permissions, Flags.SPEAK)
              THEN True ELSE False

\* voiceChannel.speakable, me the guild member of the client user, without
\* an id when the member is not cached
VoiceChannelSpeakable(st, ch, me, t) ==
    IF ~Has(me, "id") THEN False
    ELSE LET permissions == MemberPermissions(st, ch, me, t) IN
         IF HasFlag(permissions, Flags.ADMINISTRATOR) THEN True
         ELSE IF ToNumber(me.communicationDisabledUntilTimestamp) < t
                 /\ HasFlag(permissions, Flags.SPEAK)
              THEN True ELSE False

\* ------------------------------------------------------------ Role.editable

\* Permissions.FLAGS of util/Permissions.js, the flags that Role.editable and
\* the permissions of a member it reads are about
RoleFlags == [ADMINISTRATOR |-> 8, MANAGE_ROLES |-> 268435456]

\* (bits & flag) === flag for a flag of one bit
HasBit(bits, flag) == (bits \div flag) % 2 = 1

\* member.permissions.has(flag): the owner has every permission; else the
\* permissions of the roles held and of the everyone role, among which
\* ADMINISTRATOR stands for every flag
GuildMemberPermissionsHas(st, m, flag) ==
    LET base == BasePermissions(st, m.roles)
    IN  \/ m.id = st.guild.ownerId
        \/ HasBit(base, RoleFlags.ADMINISTRATOR)
        \/ HasBit(base, flag)

\* member.roles.cache: the cached roles held, and the everyone role
MemberRoles(st, m) ==
    {st.rolesCache[id] : id \in (m.roles \cup {st.guild.id}) \cap DOMAIN st.rolesCache}

\* member.roles.highest: the role of member.roles.cache that compares above
\* every other
RolesHighest(st, m) ==
    CHOOSE h \in MemberRoles(st, m) :
        \A r \in MemberRoles(st, m) : r # h => RoleComparePositionTo(st, h, r) > 0

\* mutant: a role is editable from the position of the highest role on
RoleEditableAtOrBelow(st, r, m) ==
    IF Truthy(st.roleObjs[r].managed) THEN False
    ELSE IF ~GuildMemberPermissionsHas(st, m, RoleFlags.MANAGE_ROLES) THEN False
    ELSE IF RoleComparePositionTo(st, RolesHighest(st, m), r) >= 0 THEN True ELSE False

\* role.editable of the Role at reference r, m the member of the client user
RoleEditable(st, r, m) ==
    IF Truthy(st.roleObjs[r].managed) THEN False
    ELSE IF ~GuildMemberPermissionsHas(st, m, RoleFlags.MANAGE_ROLES) THEN False
    ELSE IF RoleComparePositionTo(st, RolesHighest(st, m), r) > 0 THEN True ELSE False

\* ------------------------------------------------------------ GuildTextThreadManager

\* a JavaScript value an option carries: what typeof says of it, its value
\* (a string by a code, the empty string by 0), and whether it is an instance
\* of the class the message manager holds
JsUndefined == [typeof |-> "undefined", value |-> Undefined, holds |-> FALSE]

JsNull == [typeof |-> "object", value |-> Null, holds |-> FALSE]

JsNumber(n) == [typeof |-> "number", value |-> n, holds |-> FALSE]

JsString(code) == [typeof |-> "string", value |-> code, holds |-> FALSE]

JsBoolean(b) == [typeof |-> "boolean", value |-> IF b THEN True ELSE False, holds |-> FALSE]

\* an object that is no Message, and the Message of an id
JsObject == [typeof |-> "object", value |-> True, holds |-> FALSE]

JsMessage(id) == [typeof |-> "object", value |-> id, holds |-> TRUE]

\* x == null
JsNullish(x) == x = JsUndefined \/ x = JsNull

\* JavaScript truthiness
JsTruthy(x) ==
    /\ ~JsNullish(x)
    /\ x.typeof \in {"number", "string"} => x.value # 0
    /\ x.typeof = "boolean" => x.value = True

\* a ?? b
JsCoalesce(a, b) == IF JsNullish(a) THEN b ELSE a

\* ChannelType of discord-api-types/v10, the members the manager reads
ChannelType ==
    [GuildText |-> 0, GuildNews |-> 5, GuildNewsThread |-> 10, GuildPublicThread |-> 11,
     GuildPrivateThread |-> 12]

\* channel.messages.resolveId(message): the id of a Message, a string as it
\* is, null for anything else
MessagesResolveId(x) ==
    IF x.holds THEN JsString(x.value)
    ELSE IF x.typeof = "string" THEN x
    ELSE JsNull

\* the outcome of create up to its await: an error thrown, or the request
\* posted to Routes.threads(channel.id, startMessageId); of the body, type and
\* invitable (name, auto_archive_duration, rate_limit_per_user and the reason
\* are handed on as given)
Thrown(e) ==
    [err |-> e, startMessageId |-> JsUndefined, type |-> JsUndefined, invitable |-> JsUndefined]

Posted(startMessageId, resolvedType, invitable) ==
    [err |-> "", startMessageId |-> startMessageId, type |-> resolvedType,
     invitable |-> IF resolvedType = JsNumber(ChannelType.GuildPrivateThread)
                   THEN invitable ELSE JsUndefined]

\* mutant: the type option is read whatever the channel and the start message
ThreadsCreateTypeFirst(channel, o) ==
    IF JsTruthy(o.type) /\ o.type.typeof \notin {"string", "number"}
    THEN Thrown("INVALID_TYPE")
    ELSE LET news == channel.type = ChannelType.GuildNews
             resolvedType == JsNumber(IF news THEN ChannelType.GuildNewsThread
                                      ELSE ChannelType.GuildPublicThread)
             startMessageId == MessagesResolveId(o.startMessage)
         IN  IF JsTruthy(o.startMessage) /\ ~JsTruthy(startMessageId)
             THEN Thrown("INVALID_TYPE")
             ELSE Posted(IF JsTruthy(o.startMessage) THEN startMessageId ELSE JsUndefined,
                         JsCoalesce(o.type, resolvedType), o.invitable)

\* guildTextThreadManager.create(options) up to its await
ThreadsCreate(channel, o) ==
    IF JsTruthy(o.type) /\ o.type.typeof \notin {"string", "number"}
    THEN Thrown("INVALID_TYPE")
    ELSE LET news == channel.type = ChannelType.GuildNews
             resolvedType == JsNumber(IF news THEN ChannelType.GuildNewsThread
                                      ELSE ChannelType.GuildPublicThread)
             startMessageId == MessagesResolveId(o.startMessage)
         IN  IF JsTruthy(o.startMessage)
             THEN IF ~JsTruthy(startMessageId) THEN Thrown("INVALID_TYPE")
                  ELSE Posted(startMessageId, resolvedType, o.invitable)
             ELSE IF ~news
                  THEN Posted(JsUndefined, JsCoalesce(o.type, resolvedType), o.invitable)
                  ELSE Posted(JsUndefined, resolvedType, o.invitable)

\* ------------------------------------------------------------ BaseClient

\* mutant: the limit is raised whatever it is
IncrementMaxListenersAlways(maxListeners) == maxListeners + 1

\* client.incrementMaxListeners(): the limit setMaxListeners is called with,
\* the limit as it is when it is not called
IncrementMaxListeners(maxListeners) ==
    IF maxListeners # 0 THEN maxListeners + 1 ELSE maxListeners

\* mutant: a limit of 1 is not lowered to 0
DecrementMaxListenersAboveOne(maxListeners) ==
    IF maxListeners > 1 THEN maxListeners - 1 ELSE maxListeners

\* client.decrementMaxListeners()
DecrementMaxListeners(maxListeners) ==
    IF maxListeners # 0 THEN maxListeners - 1 ELSE maxListeners

\* ------------------------------------------------------------ Guild.me

\* the members of a guild as callers hold them: members is the cache of
\* guild.members (user id -> reference), memberObjs the GuildMember instances
\* ever constructed, user the id of client.user, partials the partials of
\* client.options, ret what the last call returned

\* guild.members.resolve(id): the cached instance, or null
MembersResolve(g, id) == IF id \in DOMAIN g.members THEN g.members[id] ELSE Null

\* guild.members._add(data, cache): the cached instance of data.user.id
\* patched, or a new instance, cached when cache is set
MembersAdd(g, data, cache) ==
    LET id == data["user"]["id"]
    IN  IF id \in DOMAIN g.members
        THEN [g EXCEPT !.memberObjs[g.members[id]].nickname =
                          IF Has(data, "nick") THEN data["nick"] ELSE @,
                       !.ret = g.members[id]]
        ELSE LET ref == Len(g.memberObjs) + 1
             IN  [g EXCEPT !.memberObjs = Append(@, [id |-> id, nickname |-> Get(data, "nick")]),
                           !.members = IF cache THEN CacheSet(@, id, ref) ELSE @,
                           !.ret = ref]

\* mutant: the partial member is constructed and not cached
GuildMeUncached(g) ==
    IF MembersResolve(g, g.user) # Null THEN [g EXCEPT !.ret = MembersResolve(g, g.user)]
    ELSE IF "GUILD_MEMBER" \in g.partials
         THEN MembersAdd(g, [user |-> [id |-> g.user]], FALSE)
         ELSE [g EXCEPT !.ret = Null]

\* guild.me
GuildMe(g) ==
    IF MembersResolve(g, g.user) # Null THEN [g EXCEPT !.ret = MembersResolve(g, g.user)]
    ELSE IF "GUILD_MEMBER" \in g.partials
         THEN MembersAdd(g, [user |-> [id |-> g.user]], TRUE)
         ELSE [g EXCEPT !.ret = Null]

\* ------------------------------------------------------------ state

State ==
    [bitfields |-> bitfields, roleObjs |-> roleObjs, rolesCache |-> rolesCache,
     guild |-> guild, ret |-> ret, err |-> err]

EmptyState ==
    [bitfields |-> <<>>, roleObjs |-> <<>>, rolesCache |-> EmptyData,
     guild |-> NewGuild(EmptyData), ret |-> Null, err |-> ""]

Assign(st) ==
    /\ bitfields' = st.bitfields
    /\ roleObjs' = st.roleObjs
    /\ rolesCache' = st.rolesCache
    /\ guild' = st.guild
    /\ ret' = st.ret
    /\ err' = st.err

Install(st) ==
    /\ Len(st.bitfields) <= MaxBitFields
    /\ Len(st.roleObjs) <= MaxRoleObjs
    /\ Assign(st)
    /\ UNCHANGED <<entity, kind, keys, inflight, channels, member, now>>

\* the guild ids payloads carry
GuildIds == {7, 8}

\* the key of the guild in client.guilds.cache: the id it was constructed with
GuildKey == CHOOSE g \in GuildIds : \A h \in GuildIds : g <= h

RoleIds == {1, 2}

\* the positions the role payloads of Spec carry
Positions == {5}

IdPart(ids) == {EmptyData} \cup {[id |-> i] : i \in ids}

\* ------------------------------------------------------------ Spec:
\* the role manager of one guild, fed by role events and guild events

RoleDataSpec ==
    {a @@ b : a \in IdPart(RoleIds), b \in {EmptyData} \cup {[position |-> p] : p \in Positions}}

GuildDataSpec ==
    {a @@ [roles |-> l] :
        a \in IdPart(GuildIds),
        l \in {<<>>, <<[id |-> 1]>>} \cup {<<[id |-> 1, position |-> p], [id |-> 2]>> : p \in Positions}}

Init ==
    /\ bitfields = <<>>
    /\ roleObjs = <<>>
    /\ rolesCache = EmptyData
    /\ guild = GuildConstructor(EmptyState, [id |-> GuildKey]).guild
    /\ ret = Null
    /\ err = ""
    /\ last = [op |-> "init", id |-> Undefined, cache |-> FALSE, hit |-> FALSE]
    /\ entity = EmptyData
    /\ kind = "Guild"
    /\ keys = {}
    /\ inflight = {}
    /\ channels = EmptyData
    /\ member = EmptyData
    /\ now = 0

\* a role event: guild.roles._add(data, cache)
DoRolesAdd ==
    \E data \in RoleDataSpec, cache \in BOOLEAN :
        /\ Install(RolesAdd(State, data, cache))
        /\ last' = [op |-> "add", id |-> Get(data, "id"), cache |-> cache,
                    hit |-> Get(data, "id") \in DOMAIN rolesCache]

\* a role deletion event
DoRolesRemove ==
    \E id \in DOMAIN rolesCache :
        /\ Install(RolesRemove(State, id))
        /\ last' = [op |-> "remove", id |-> id, cache |-> FALSE, hit |-> FALSE]

\* role.delete() through a handle the caller holds; the request is accepted
\* or rejected by the API
DoRoleDelete ==
    \E r \in DOMAIN roleObjs, ok \in BOOLEAN :
        /\ Install(IF ok THEN RoleDelete(State, r)
                   ELSE [State EXCEPT !.ret = Null, !.err = "DiscordAPIError"])
        /\ last' = [op |-> "delete", id |-> roleObjs[r].id, cache |-> FALSE,
                    hit |-> roleObjs[r].id \in DOMAIN rolesCache]

\* role._patch(data) through a handle the caller holds
DoRolePatch ==
    \E r \in DOMAIN roleObjs, data \in RoleDataSpec :
        /\ Install([RolePatch(State, r, data) EXCEPT !.ret = Null, !.err = ""])
        /\ last' = [op |-> "patch", id |-> Get(data, "id"), cache |-> FALSE, hit |-> FALSE]

\* a guild event: guild._patch(data)
DoGuildPatch ==
    \E data \in GuildDataSpec :
        /\ Install([GuildPatch(State, data) EXCEPT !.ret = Null, !.err = ""])
        /\ last' = [op |-> "guildPatch", id |-> Get(data, "id"), cache |-> FALSE, hit |-> FALSE]

Next == DoRolesAdd \/ DoRolesRemove \/ DoRolePatch \/ DoGuildPatch

Spec == Init /\ [][Next]_vars

\* SpecRemove: roles come by events and go by events and by role.delete()
NextRemove == DoRolesAdd \/ DoRolesRemove \/ DoRoleDelete

SpecRemove == Init /\ [][NextRemove]_vars

\* ------------------------------------------------------------ SpecBits:
\* one role and the guild receive permissions and flags, and callers
\* construct, freeze and try to change bitfields

\* Permissions.FLAGS.ADMINISTRATOR and VIEW_CHANNEL, as the API's decimal strings
PermissionStrings == {<<8>>, <<1, 0, 2, 4>>}

\* the bits a caller adds or removes
SomeBits == {8, 1024}

RoleDataBits ==
    {[id |-> 1]} \cup {[id |-> 1, permissions |-> p] : p \in PermissionStrings}

GuildDataBits ==
    {[id |-> GuildKey, system_channel_flags |-> f] : f \in {0, 8}}

DoRolesAddBits ==
    \E data \in RoleDataBits :
        /\ Install(RolesAdd(State, data, TRUE))
        /\ last' = [op |-> "add", id |-> Get(data, "id"), cache |-> TRUE,
                    hit |-> Get(data, "id") \in DOMAIN rolesCache]

DoGuildPatchBits ==
    \E data \in GuildDataBits :
        /\ Install([GuildPatch(State, data) EXCEPT !.ret = Null, !.err = ""])
        /\ last' = [op |-> "guildPatch", id |-> Get(data, "id"), cache |-> FALSE, hit |-> FALSE]

DoBitFieldAdd ==
    \E ref \in DOMAIN bitfields, bits \in SomeBits :
        /\ Install(BitFieldAdd(State, ref, bits))
        /\ last' = [op |-> "bitAdd", id |-> ref, cache |-> FALSE, hit |-> FALSE]

DoBitFieldRemove ==
    \E ref \in DOMAIN bitfields, bits \in SomeBits :
        /\ Install(BitFieldRemove(State, ref, bits))
        /\ last' = [op |-> "bitRemove", id |-> ref, cache |-> FALSE, hit |-> FALSE]

DoBitFieldNew ==
    \E bits \in SomeBits :
        /\ Install(BitFieldNew(State, bits))
        /\ last' = [op |-> "bitNew", id |-> Len(bitfields) + 1, cache |-> FALSE, hit |-> FALSE]

DoBitFieldFreeze ==
    \E ref \in DOMAIN bitfields :
        /\ Install(BitFieldFreeze(State, ref))
        /\ last' = [op |-> "bitFreeze", id |-> ref, cache |-> FALSE, hit |-> FALSE]

NextBits ==
    \/ DoRolesAddBits
    \/ DoGuildPatchBits
    \/ DoBitFieldAdd
    \/ DoBitFieldRemove
    \/ DoBitFieldNew
    \/ DoBitFieldFreeze

SpecBits == Init /\ [][NextBits]_vars

\* ------------------------------------------------------------ SpecPatch:
\* one instance of one structure receives patches; a behaviour draws its
\* payloads over two of the keys the structure's _patch reads

Kinds == {"Role", "Guild", "ClientUser", "VoiceChannel", "StageChannel", "GuildForumChannel"}

\* the values the payloads carry under each key
RoleKeyValues ==
    [name |-> {1, 2}, color |-> {1, 2}, hoist |-> {False, True}, position |-> {3, 5},
     permissions |-> PermissionStrings, managed |-> {False, True},
     mentionable |-> {False, True}, icon |-> {Null, 1}, unicode_emoji |-> {Null, 1},
     tags |-> {NullObject, EmptyData, [bot_id |-> 1], [bot_id |-> 1, integration_id |-> 2],
               [premium_subscriber |-> Null]}]

GuildKeyValues ==
    [name |-> {1, 2}, icon |-> {Null, 1}, unavailable |-> {False, True},
     discovery_splash |-> {Null, 1}, member_count |-> {1, 2}, large |-> {False, True},
     premium_progress_bar_enabled |-> {True}, application_id |-> {Null, 1},
     afk_timeout |-> {1}, afk_channel_id |-> {1}, system_channel_id |-> {1},
     premium_tier |-> {0, 1}, widget_enabled |-> {False, True}, widget_channel_id |-> {1},
     explicit_content_filter |-> {0, 1}, mfa_level |-> {0, 1}, joined_at |-> {1, 2},
     default_message_notifications |-> {0, 1}, system_channel_flags |-> {0, 8},
     max_members |-> {1}, max_presences |-> {Null, 1}, max_video_channel_users |-> {1},
     max_stage_video_channel_users |-> {1}, approximate_member_count |-> {1},
     approximate_presence_count |-> {1}, rules_channel_id |-> {1},
     public_updates_channel_id |-> {1}, preferred_locale |-> {1}, owner_id |-> {1, 2},
     roles |-> {<<>>, <<[id |-> 1]>>, <<[id |-> 1, position |-> 5], [id |-> 2]>>},
     members |-> {<<>>, <<[id |-> 1]>>, <<[id |-> 1, nick |-> 1], [id |-> 2]>>},
     stage_instances |-> {<<>>, <<[id |-> 1]>>},
     guild_scheduled_events |-> {<<>>, <<[id |-> 1]>>},
     voice_states |-> {<<>>, <<[id |-> 1]>>},
     description |-> {Null, 1}, vanity_url_code |-> {Null, 1}]

ClientUserKeyValues ==
    [username |-> {1, 2}, verified |-> {False, True}, mfa_enabled |-> {False, True, Null, 5},
     token |-> {1, 2}]

VoiceChannelKeyValues ==
    [name |-> {1, 2}, bitrate |-> {1, 2}, video_quality_mode |-> {0, 1},
     messages |-> {<<>>, <<[id |-> 1]>>, <<[id |-> 1, content |-> 1], [id |-> 2]>>},
     rate_limit_per_user |-> {0, 5}, nsfw |-> {False, True}]

StageChannelKeyValues ==
    [name |-> {1, 2}, bitrate |-> {1, 2}, topic |-> {Null, 1}]

ForumChannelKeyValues ==
    [name |-> {1, 2},
     available_tags |-> {<<>>, <<[id |-> 1, name |-> 1]>>,
                         <<[id |-> 1, name |-> 1, moderated |-> True],
                           [id |-> 2, emoji_id |-> 3]>>},
     default_reaction_emoji |-> {NullObject, [emoji_id |-> 1], [emoji_name |-> 2]},
     default_thread_rate_limit_per_user |-> {Null, 5}]

KeyValues(k) ==
    CASE k = "Role" -> RoleKeyValues
      [] k = "Guild" -> GuildKeyValues
      [] k = "ClientUser" -> ClientUserKeyValues
      [] k = "VoiceChannel" -> VoiceChannelKeyValues
      [] k = "StageChannel" -> StageChannelKeyValues
      [] k = "GuildForumChannel" -> ForumChannelKeyValues

KeyPairs(k) == {{a, b} : a, b \in DOMAIN KeyValues(k)}

RECURSIVE Payloads(_, _)
\* every payload that carries a subset of the keys K
Payloads(vals, K) ==
    IF K = {} THEN {EmptyData}
    ELSE LET key == CHOOSE x \in K : TRUE
             rest == Payloads(vals, K \ {key})
         IN  rest \cup {(key :> v) @@ p : v \in vals[key], p \in rest}

\* the id of the instance under patch
PatchedId == IF kind = "Guild" THEN GuildKey ELSE CHOOSE i \in RoleIds : \A j \in RoleIds : i <= j

\* the valid payloads of the behaviour: each carries the id
PatchData == {[id |-> PatchedId] @@ p : p \in Payloads(KeyValues(kind), keys)}

\* the state after the construction of the instance from a payload with its id
Constructed(k) ==
    LET g == GuildConstructor(EmptyState, [id |-> GuildKey])
        id == CHOOSE i \in RoleIds : \A j \in RoleIds : i <= j
    IN  CASE k = "Role" -> [RolesAdd(g, [id |-> id], TRUE) EXCEPT !.ret = Null]
          [] k = "Guild" -> g
          [] k = "ClientUser" -> [g EXCEPT !.ret = ClientUserConstructor([id |-> id])]
          [] k = "VoiceChannel" -> [g EXCEPT !.ret = VoiceChannelConstructor([id |-> id])]
          [] k = "StageChannel" -> [g EXCEPT !.ret = StageChannelConstructor([id |-> id])]
          [] k = "GuildForumChannel" -> [g EXCEPT !.ret = ForumChannelConstructor([id |-> id])]

InitPatch ==
    /\ kind \in Kinds
    /\ keys \in KeyPairs(kind)
    /\ bitfields = Constructed(kind).bitfields
    /\ roleObjs = Constructed(kind).roleObjs
    /\ rolesCache = Constructed(kind).rolesCache
    /\ guild = Constructed(kind).guild
    /\ entity = IF kind \in {"Role", "Guild"} THEN EmptyData ELSE Constructed(kind).ret
    /\ ret = Null
    /\ err = ""
    /\ last = [op |-> "init", data |-> EmptyData, twice |-> FALSE]
    /\ inflight = {}
    /\ channels = EmptyData
    /\ member = EmptyData
    /\ now = 0

\* the record of a patch: its payload, and whether the patch just before it
\* had the same payload
Patched(data) ==
    last' = [op |-> "patch", data |-> data,
             twice |-> last.op = "patch" /\ last.data = data]

\* role._patch(data)
PatchRole ==
    /\ kind = "Role"
    /\ \E data \in PatchData :
        /\ Install(RolePatch(State, rolesCache[PatchedId], data))
        /\ Patched(data)

\* guild._patch(data)
PatchGuild ==
    /\ kind = "Guild"
    /\ \E data \in PatchData :
        /\ Install(GuildPatch(State, data))
        /\ Patched(data)

PatchEntity(e, data) ==
    /\ entity' = e
    /\ Patched(data)
    /\ UNCHANGED <<bitfields, roleObjs, rolesCache, guild, ret, err, kind, keys, inflight,
                   channels, member, now>>

\* clientUser._patch(data)
PatchClientUser ==
    /\ kind = "ClientUser"
    /\ \E data \in PatchData : PatchEntity(ClientUserPatch(entity, data), data)

\* voiceChannel._patch(data)
PatchVoiceChannel ==
    /\ kind = "VoiceChannel"
    /\ \E data \in PatchData : PatchEntity(VoiceChannelPatch(entity, data), data)

\* stageChannel._patch(data)
PatchStageChannel ==
    /\ kind = "StageChannel"
    /\ \E data \in PatchData : PatchEntity(StageChannelPatch(entity, data), data)

\* guildForumChannel._patch(data)
PatchForumChannel ==
    /\ kind = "GuildForumChannel"
    /\ \E data \in PatchData : PatchEntity(ForumChannelPatch(entity, data), data)

NextPatch ==
    \/ PatchRole
    \/ PatchGuild
    \/ PatchClientUser
    \/ PatchVoiceChannel
    \/ PatchStageChannel
    \/ PatchForumChannel

SpecPatch == InitPatch /\ [][NextPatch]_vars

\* what a caller observes of a bitfield property: its value and frozen flag
BitFieldView(bits, ref) == IF ref = Undefined THEN Unset(NewBitField(0)) ELSE SetTo(bits[ref])

\* what a caller observes of a role
RoleView(bits, o) == [o EXCEPT !.permissions = BitFieldView(bits, @)]

\* what a caller observes of the instances: fields by value, caches by key
Observed ==
    [guild |-> [guild EXCEPT !.systemChannelFlags = BitFieldView(bitfields, @)],
     roles |-> [k \in DOMAIN rolesCache |-> RoleView(bitfields, roleObjs[rolesCache[k]])],
     entity |-> entity]

\* ------------------------------------------------------------ SpecGuild:
\* the guild receives events while fetches on it are sent and answered

\* the keys of a guild payload that the fetches also concern
GuildDataFetch ==
    {[id |-> GuildKey] @@ p :
        p \in Payloads([vanity_url_code |-> {Null, 1}, widget_enabled |-> {False, True},
                        widget_channel_id |-> {Null, 1}],
                       {"vanity_url_code", "widget_enabled", "widget_channel_id"})}

\* the responses of the vanity-url route
VanityResponses == Payloads([code |-> {Null, 2}, uses |-> {0, 3}], {"code", "uses"})

\* the responses of the widget settings route
WidgetResponses ==
    Payloads([enabled |-> {False, True}, channel_id |-> {Null, 2}], {"enabled", "channel_id"})

InitGuild ==
    /\ \E f \in {{}, {"VANITY_URL"}} :
          guild = GuildConstructor(EmptyState, [id |-> GuildKey, features |-> f]).guild
    /\ bitfields = <<>>
    /\ roleObjs = <<>>
    /\ rolesCache = EmptyData
    /\ ret = Null
    /\ err = ""
    /\ last = [op |-> "init", data |-> EmptyData]
    /\ entity = EmptyData
    /\ kind = "Guild"
    /\ keys = {}
    /\ inflight = {}
    /\ channels = EmptyData
    /\ member = EmptyData
    /\ now = 0

\* the record of a step of SpecGuild and the fetches in flight after it
GuildStep(op, data, flying) ==
    /\ last' = [op |-> op, data |-> data]
    /\ inflight' = flying
    /\ UNCHANGED <<entity, kind, keys, channels, member, now>>

\* a guild event: guild._patch(data)
GuildEvent ==
    \E data \in GuildDataFetch :
        /\ Assign([GuildPatch(State, data) EXCEPT !.ret = Null, !.err = ""])
        /\ GuildStep("guildPatch", data, inflight)

\* guild.fetch(), guild.fetchVanityData() or guild.fetchWidgetSettings() up
\* to its await; fetchVanityData throws without the feature
FetchRequest ==
    \E op \in {"fetch", "fetchVanityData", "fetchWidgetSettings"} \ inflight :
        IF op = "fetchVanityData" /\ ~HasVanityFeature(guild)
        THEN /\ Assign([State EXCEPT !.ret = Null, !.err = "VANITY_URL"])
             /\ GuildStep("request", EmptyData, inflight)
        ELSE /\ Assign([State EXCEPT !.ret = Null, !.err = ""])
             /\ GuildStep("request", EmptyData, inflight \cup {op})

\* the response of guild.fetch() arrives
FetchResponse ==
    /\ "fetch" \in inflight
    /\ \E data \in GuildDataFetch :
          /\ Assign(GuildFetch(State, data))
          /\ GuildStep("fetch", data, inflight \ {"fetch"})

\* the response of guild.fetchVanityData() arrives
FetchVanityDataResponse ==
    /\ "fetchVanityData" \in inflight
    /\ \E data \in VanityResponses :
          /\ Assign(GuildFetchVanityData(State, data))
          /\ GuildStep("fetchVanityData", data, inflight \ {"fetchVanityData"})

\* the response of guild.fetchWidgetSettings() arrives
FetchWidgetSettingsResponse ==
    /\ "fetchWidgetSettings" \in inflight
    /\ \E data \in WidgetResponses :
          /\ Assign(GuildFetchWidgetSettings(State, data))
          /\ GuildStep("fetchWidgetSettings", data, inflight \ {"fetchWidgetSettings"})

NextGuild ==
    \/ GuildEvent
    \/ FetchRequest
    \/ FetchResponse
    \/ FetchVanityDataResponse
    \/ FetchWidgetSettingsResponse

SpecGuild == InitGuild /\ [][NextGuild]_vars

\* ------------------------------------------------------------ SpecOrder:
\* role events of one guild with ids and positions that tie, and callers
\* that read the position of a role

OrderIds == {100, 200, 999}

OrderPositions == {3, 5}

RoleDataOrder == {[id |-> i, position |-> p] : i \in OrderIds, p \in OrderPositions}

\* the record of a step: moved tells that the step changed the rawPosition
\* of a Role that was in the cache
OrderStep(op, id, moved) ==
    /\ last' = [op |-> op, id |-> id, moved |-> moved]
    /\ UNCHANGED <<entity, kind, keys, inflight, channels, member, now>>

\* a role event: guild.roles._add(data)
OrderRolesAdd ==
    \E data \in RoleDataOrder :
        /\ Len(RolesAdd(State, data, TRUE).roleObjs) <= MaxSiblings
        /\ Assign(RolesAdd(State, data, TRUE))
        /\ OrderStep("add", data["id"],
                     /\ data["id"] \in DOMAIN rolesCache
                     /\ roleObjs[rolesCache[data["id"]]].rawPosition # data["position"])

\* a role deletion event
OrderRolesRemove ==
    \E id \in DOMAIN rolesCache :
        /\ Assign(RolesRemove(State, id))
        /\ OrderStep("remove", id, FALSE)

\* role._patch(data) through a handle the caller holds
OrderRolePatch ==
    \E r \in DOMAIN roleObjs, p \in OrderPositions :
        /\ Assign([RolePatch(State, r, [id |-> roleObjs[r].id, position |-> p])
                      EXCEPT !.ret = Null, !.err = ""])
        /\ OrderStep("patch", r, FALSE)

\* a caller reads role.position through a handle it holds
OrderReadPosition ==
    \E r \in DOMAIN roleObjs :
        /\ Assign([State EXCEPT !.ret = RolePosition(State, r), !.err = ""])
        /\ OrderStep("position", r, FALSE)

\* a caller compares two roles through handles it holds
OrderComparePosition ==
    \E r \in DOMAIN roleObjs, other \in DOMAIN roleObjs :
        /\ Assign([State EXCEPT !.ret = RoleComparePositionTo(State, r, other), !.err = ""])
        /\ last' = [op |-> "compare", id |-> r, moved |-> FALSE, other |-> other]
        /\ UNCHANGED <<entity, kind, keys, inflight, channels, member, now>>

NextOrder == OrderRolesAdd \/ OrderRolesRemove \/ OrderRolePatch \/ OrderReadPosition

\* the role events with callers that compare roles
NextCompare == OrderRolesAdd \/ OrderRolesRemove \/ OrderComparePosition

InitOrder ==
    /\ Init
    /\ inflight = {}

SpecOrder == InitOrder /\ [][NextOrder]_vars

SpecCompare == InitOrder /\ [][NextCompare]_vars

\* ------------------------------------------------------------ SpecChannels:
\* channel events of one guild, and callers that read the sorted channels of
\* a channel

ChannelIds == {1, 2, 3}

ChannelTypeNames == {"GUILD_TEXT", "GUILD_NEWS", "GUILD_VOICE", "GUILD_CATEGORY"}

\* the id of the channel that the others name as their parent
ParentId == CHOOSE i \in ChannelIds : \A j \in ChannelIds : i <= j

ChannelData ==
    {[id |-> i, type |-> ty, position |-> p, parent_id |-> pa] :
        i \in ChannelIds, ty \in ChannelTypeNames, p \in {0, 1}, pa \in {Null, ParentId}}

ChannelStep(op, id) ==
    /\ last' = [op |-> op, id |-> id]
    /\ UNCHANGED <<bitfields, roleObjs, rolesCache, guild, entity, kind, keys, inflight,
                   member, now>>

\* a channel create or update event: client.channels._add(data, guild)
ChannelEvent ==
    \E data \in ChannelData :
        /\ data["id"] # data["parent_id"]
        /\ channels' = ChannelsAdd(channels, data)
        /\ ret' = Null
        /\ err' = ""
        /\ ChannelStep("add", data["id"])

\* a channel deletion event
ChannelRemove ==
    \E id \in DOMAIN channels :
        /\ channels' = CacheDelete(channels, id)
        /\ ret' = Null
        /\ err' = ""
        /\ ChannelStep("remove", id)

\* a caller reads guild._sortedChannels(channel) for a cached channel
ReadSortedChannels ==
    \E id \in DOMAIN channels :
        /\ ret' = SortedChannels(channels, channels[id])
        /\ err' = ""
        /\ channels' = channels
        /\ ChannelStep("sorted", id)

NextChannels == ChannelEvent \/ ChannelRemove \/ ReadSortedChannels

SpecChannels == Init /\ [][NextChannels]_vars

\* ------------------------------------------------------------ SpecPerms:
\* the permissions of a member and of roles in one voice channel, for every
\* setting of role permissions, overwrites, roles held, owner and restriction

\* the ids of guild members; the least is the member under resolution
MemberIds == {50, 60}

Me == CHOOSE m \in MemberIds : \A n \in MemberIds : m <= n

\* Date.now() of the behaviours
Times == {10}

\* data.permissions of the everyone role: VIEW_CHANNEL, with SPEAK, with ADMINISTRATOR
EveryonePermissionStrings == {<<1, 0, 2, 4>>, <<2, 0, 9, 8, 1, 7, 6>>, <<1, 0, 3, 2>>}

\* data.permissions of the role of the least id: nothing or ADMINISTRATOR
RolePermissionStrings == {<<0>>, <<8>>}

\* the subjects of overwrites: the everyone role, the roles, the member
Subjects == {GuildKey, Me} \cup RoleIds

\* allow and deny of an overwrite on SPEAK: allowed, denied, or both bits set
OverwriteValues ==
    {[allow |-> Flags.SPEAK, deny |-> 0], [allow |-> 0, deny |-> Flags.SPEAK],
     [allow |-> Flags.SPEAK, deny |-> Flags.SPEAK]}

\* the channel of the behaviours
VoiceChannelId == CHOOSE c \in ChannelIds : \A d \in ChannelIds : c <= d

\* the guild with its roles, as constructed from a payload
GuildWithRoles(everyone, first, owner) ==
    GuildConstructor(EmptyState,
        [id |-> GuildKey, owner_id |-> owner,
         roles |-> <<[id |-> GuildKey, permissions |-> everyone]>>
                   \o [i \in 1..Cardinality(RoleIds) |->
                         IF i = 1 THEN [id |-> i, permissions |-> first]
                         ELSE [id |-> i, permissions |-> <<0>>]]])

InitPerms ==
    /\ \E everyone \in EveryonePermissionStrings, first \in RolePermissionStrings,
          owner \in MemberIds :
          LET st == GuildWithRoles(everyone, first, owner) IN
          /\ bitfields = st.bitfields
          /\ roleObjs = st.roleObjs
          /\ rolesCache = st.rolesCache
          /\ guild = st.guild
    /\ ret = Null
    /\ err = ""
    /\ last = [op |-> "init", id |-> Undefined]
    /\ entity = EmptyData
    /\ kind = "Guild"
    /\ keys = {}
    /\ inflight = {}
    /\ \E S \in SUBSET Subjects : \E ow \in [S -> OverwriteValues] :
          channels = (VoiceChannelId :>
                        [id |-> VoiceChannelId, type |-> "GUILD_VOICE", rawPosition |-> 0,
                         parentId |-> Null, permissionOverwrites |-> ow])
    /\ now \in Times
    /\ \/ member = EmptyData
       \/ \E held \in SUBSET RoleIds, until \in {Null, now, now + 1} :
            member = [id |-> Me, roles |-> held, communicationDisabledUntilTimestamp |-> until]

PermsStep(op, id) ==
    /\ last' = [op |-> op, id |-> id]
    /\ UNCHANGED <<bitfields, roleObjs, rolesCache, guild, entity, kind, keys, inflight,
                   channels, member, now>>

\* a caller reads channel.permissionsFor(member)
ReadPermissionsFor ==
    \E c \in DOMAIN channels :
        /\ ret' = ChannelPermissionsFor(State, channels[c], member, now)
        /\ err' = ""
        /\ PermsStep("permissionsFor", c)

\* a caller reads voiceChannel.speakable, the member being the client's
ReadSpeakable ==
    \E c \in DOMAIN channels :
        /\ ret' = VoiceChannelSpeakable(State, channels[c], member, now)
        /\ err' = ""
        /\ PermsStep("speakable", c)

NextPerms == ReadPermissionsFor \/ ReadSpeakable

SpecPerms == InitPerms /\ [][NextPerms]_vars

\* ------------------------------------------------------------ SpecRolePerms:
\* callers read role.permissionsIn with ids and with channel instances, of
\* the guild of the role and of another guild

\* the overwrites of the behaviours: on the everyone role and the least role
RoleSubjects == {GuildKey} \cup {r \in RoleIds : \A q \in RoleIds : r <= q}

\* a voice channel of a guild
VoiceChannelOf(guildId, id, ow) ==
    [id |-> id, guildId |-> guildId, type |-> "GUILD_VOICE", rawPosition |-> 0,
     parentId |-> Null, permissionOverwrites |-> ow]

\* what a caller passes as channel: an id, cached or not, or an instance: the
\* cached channel, or a channel of another guild with the id of the cached one
ChannelArguments ==
    {[instance |-> FALSE, id |-> c, channel |-> EmptyData] : c \in ChannelIds}
    \cup {[instance |-> TRUE, id |-> c, channel |-> channels[c]] : c \in DOMAIN channels}
    \cup {[instance |-> TRUE, id |-> c, channel |-> VoiceChannelOf(g, c, EmptyData)] :
            c \in DOMAIN channels, g \in GuildIds \ {guild.id}}

InitRolePerms ==
    /\ \E everyone \in EveryonePermissionStrings, first \in RolePermissionStrings :
          LET st == GuildWithRoles(everyone, first, Me) IN
          /\ bitfields = st.bitfields
          /\ roleObjs = st.roleObjs
          /\ rolesCache = st.rolesCache
          /\ guild = st.guild
    /\ ret = Null
    /\ err = ""
    /\ last = [op |-> "init", id |-> Undefined, checkAdmin |-> FALSE,
               arg |-> [instance |-> FALSE, id |-> Undefined, channel |-> EmptyData]]
    /\ entity = EmptyData
    /\ kind = "Guild"
    /\ keys = {}
    /\ inflight = {}
    /\ \E S \in SUBSET RoleSubjects : \E ow \in [S -> OverwriteValues] :
          channels = (VoiceChannelId :> VoiceChannelOf(GuildKey, VoiceChannelId, ow))
    /\ member = EmptyData
    /\ now = 0

\* a caller reads role.permissionsIn(channel, checkAdmin)
ReadRolePermissionsIn ==
    \E r \in DOMAIN roleObjs, arg \in ChannelArguments, checkAdmin \in BOOLEAN :
        LET st == RolePermissionsIn(State, channels, r, arg, checkAdmin) IN
        /\ ret' = st.ret
        /\ err' = st.err
        /\ last' = [op |-> "permissionsIn", id |-> r, checkAdmin |-> checkAdmin, arg |-> arg]
        /\ UNCHANGED <<bitfields, roleObjs, rolesCache, guild, entity, kind, keys, inflight,
                       channels, member, now>>

NextRolePerms == ReadRolePermissionsIn

SpecRolePerms == InitRolePerms /\ [][NextRolePerms]_vars

\* ------------------------------------------------------------ SpecAdd:
\* a guild or a voice channel is created by add from a payload, and add is
\* then called for its id again, with the same payload and with others

\* the values the payloads of a guild carry under each key
GuildAddKeyValues ==
    [name |-> {1, 2}, unavailable |-> {False, True}, channels |-> {<<>>}, max_members |-> {1}]

\* the values the payloads of a voice channel carry under each key
VoiceChannelAddKeyValues ==
    [name |-> {1, 2}, nsfw |-> {False, True, Null}, video_quality_mode |-> {0, 1}]

\* the payloads of add for the instance of the behaviour: each carries the id
AddData(k) ==
    IF k = "Guild"
    THEN {[id |-> GuildKey] @@ p : p \in Payloads(GuildAddKeyValues, DOMAIN GuildAddKeyValues)}
    ELSE {[id |-> VoiceChannelId] @@ p :
            p \in Payloads(VoiceChannelAddKeyValues, DOMAIN VoiceChannelAddKeyValues)}

InitAdd ==
    /\ kind \in {"Guild", "VoiceChannel"}
    /\ \E data \in AddData(kind) :
        /\ guild = GuildConstructor(EmptyState,
                                    IF kind = "Guild" THEN data ELSE [id |-> GuildKey]).guild
        /\ entity = IF kind = "Guild" THEN EmptyData ELSE VoiceChannelConstructor(data)
        /\ last = [op |-> "init", data |-> data, first |-> data, fresh |-> FALSE]
    /\ bitfields = <<>>
    /\ roleObjs = <<>>
    /\ rolesCache = EmptyData
    /\ keys = {}
    /\ ret = Null
    /\ err = ""
    /\ inflight = {}
    /\ channels = EmptyData
    /\ member = EmptyData
    /\ now = 0

\* the record of an add for the id of the instance: its payload, the payload
\* of the construction, and whether this is the first add since
Added(data) ==
    last' = [op |-> "add", data |-> data, first |-> last.first, fresh |-> last.op = "init"]

\* client.guilds._add(data) for the guild the cache holds
AddGuildAgain ==
    /\ kind = "Guild"
    /\ \E data \in AddData(kind) :
        /\ Install(GuildsAdd(State, data))
        /\ Added(data)

\* client.channels._add(data, guild) for the voice channel the cache holds:
\* the entry is patched
AddVoiceChannelAgain ==
    /\ kind = "VoiceChannel"
    /\ \E data \in AddData(kind) : 
        /\ entity' = VoiceChannelPatch(entity, data)
        /\ Added(data)
        /\ UNCHANGED <<bitfields, roleObjs, rolesCache, guild, ret, err, kind, keys, inflight,
                       channels, member, now>>

NextAdd == AddGuildAgain \/ AddVoiceChannelAgain

SpecAdd == InitAdd /\ [][NextAdd]_vars

\* ------------------------------------------------------------ SpecThreads:
\* callers create threads in a text or a news channel; a call posts its
\* request and completes with the response

\* the type option: absent, null, the thread types as numbers, a name, the
\* empty string, booleans, an object
TypeOptions ==
    {JsUndefined, JsNull, JsString(1), JsString(0), JsBoolean(FALSE), JsBoolean(TRUE), JsObject}
    \cup {JsNumber(ChannelType[n]) :
            n \in {"GuildNewsThread", "GuildPublicThread", "GuildPrivateThread"}}

\* the startMessage option: absent, null, an id, the empty string, a Message,
\* an object that is no Message
StartMessageOptions ==
    {JsUndefined, JsNull, JsString(1), JsString(0), JsMessage(2), JsObject}

ThreadCreateOptions ==
    [type : TypeOptions, startMessage : StartMessageOptions,
     invitable : {JsUndefined, JsBoolean(TRUE)}]

InitThreads ==
    /\ guild = GuildConstructor(EmptyState, [id |-> GuildKey]).guild
    /\ bitfields = <<>>
    /\ roleObjs = <<>>
    /\ rolesCache = EmptyData
    /\ ret = Null
    /\ err = ""
    /\ last = [op |-> "init", options |-> [type |-> JsUndefined, startMessage |-> JsUndefined,
                                           invitable |-> JsUndefined]]
    /\ \E type \in {ChannelType.GuildText, ChannelType.GuildNews} :
          entity = [id |-> VoiceChannelId, type |-> type]
    /\ kind = "Guild"
    /\ keys = {}
    /\ inflight = {}
    /\ channels = EmptyData
    /\ member = EmptyData
    /\ now = 0

ThreadsStep(op, options) ==
    /\ last' = [op |-> op, options |-> options]
    /\ UNCHANGED <<bitfields, roleObjs, rolesCache, guild, entity, kind, keys, member, now>>

\* channel.threads.create(options) up to its await, while no other call of
\* it is pending: it throws, or the request is posted
CreateRequest ==
    /\ inflight = {}
    /\ \E o \in ThreadCreateOptions :
        LET out == ThreadsCreate(entity, o) IN
        /\ err' = out.err
        /\ ret' = Null
        /\ inflight' = IF out.err = "" THEN {out} ELSE {}
        /\ channels' = channels
        /\ ThreadsStep("create", o)

\* the response arrives: the API has created the thread as requested and
\* ThreadCreate.handle(data).thread is returned, or it has rejected the request
CreateResponse ==
    \E request \in inflight, ok \in BOOLEAN :
        /\ inflight' = inflight \ {request}
        /\ err' = IF ok THEN "" ELSE "DiscordAPIError"
        /\ ret' = IF ok THEN VoiceChannelId + 1 ELSE Null
        /\ channels' = IF ok THEN ((VoiceChannelId + 1) :>
                                     [id |-> VoiceChannelId + 1, parentId |-> entity.id,
                                      type |-> request.type])
                       ELSE channels
        /\ ThreadsStep("created", last.options)

NextThreads == CreateRequest \/ CreateResponse

SpecThreads == InitThreads /\ [][NextThreads]_vars

\* ------------------------------------------------------------ SpecListeners:
\* the limit of listeners of a client is set by callers, and raised and
\* lowered by the client around the listeners it adds for itself

InitListeners ==
    /\ guild = GuildConstructor(EmptyState, [id |-> GuildKey]).guild
    /\ bitfields = <<>>
    /\ roleObjs = <<>>
    /\ rolesCache = EmptyData
    /\ ret = Null
    /\ err = ""
    /\ \E n \in 0..MaxListeners :
        /\ entity = [maxListeners |-> n]
        /\ last = [op |-> "init", before |-> n, previous |-> "init", start |-> n]
    /\ kind = "BaseClient"
    /\ keys = {}
    /\ inflight = {}
    /\ channels = EmptyData
    /\ member = EmptyData
    /\ now = 0

ListenersStep(op, n) ==
    /\ entity' = [entity EXCEPT !.maxListeners = n]
    /\ last' = [op |-> op, before |-> entity.maxListeners,
                previous |-> last.op, start |-> last.before]
    /\ UNCHANGED <<bitfields, roleObjs, rolesCache, guild, ret, err, kind, keys, inflight,
                   channels, member, now>>

\* (last records the call, the limit before it, the call before it and the
\* limit before that one)

\* a caller sets the limit: emitter.setMaxListeners(n)
DoSetMaxListeners ==
    \E n \in 0..MaxListeners :
        /\ n # entity.maxListeners
        /\ ListenersStep("set", n)

\* client.incrementMaxListeners()
DoIncrementMaxListeners ==
    /\ entity.maxListeners < MaxListeners
    /\ ListenersStep("increment", IncrementMaxListeners(entity.maxListeners))

\* client.decrementMaxListeners()
DoDecrementMaxListeners ==
    /\ kind = "BaseClient"
    /\ ListenersStep("decrement", DecrementMaxListeners(entity.maxListeners))

NextListeners == DoSetMaxListeners \/ DoIncrementMaxListeners \/ DoDecrementMaxListeners

SpecListeners == InitListeners /\ [][NextListeners]_vars

\* ------------------------------------------------------------ SpecMe:
\* member events of one guild, and callers that read guild.me, with and
\* without the partial of guild members

InitMe ==
    /\ guild = GuildConstructor(EmptyState, [id |-> GuildKey]).guild
    /\ bitfields = <<>>
    /\ roleObjs = <<>>
    /\ rolesCache = EmptyData
    /\ ret = Null
    /\ err = ""
    /\ \E partials \in {{}, {"GUILD_MEMBER"}} :
        entity = [user |-> Me, partials |-> partials, members |-> EmptyData,
                  memberObjs |-> <<>>, ret |-> Null]
    /\ last = [op |-> "init", id |-> Me]
    /\ kind = "Guild"
    /\ keys = {}
    /\ inflight = {}
    /\ channels = EmptyData
    /\ member = EmptyData
    /\ now = 0

MeStep(op, id, g) ==
    /\ Len(g.memberObjs) <= MaxMemberObjs
    /\ entity' = g
    /\ last' = [op |-> op, id |-> id]
    /\ UNCHANGED <<bitfields, roleObjs, rolesCache, guild, ret, err, kind, keys, inflight,
                   channels, member, now>>

\* a member event: guild.members._add(data)
MemberEvent ==
    \E id \in MemberIds, nick \in {Null, 1} :
        /\ kind = "Guild"
        /\ MeStep("add", id, MembersAdd(entity, [user |-> [id |-> id], nick |-> nick], TRUE))

\* a member other than the client user leaves the guild
MemberRemove ==
    \E id \in DOMAIN entity.members :
        /\ id # entity.user
        /\ MeStep("remove", id, [entity EXCEPT !.members = CacheDelete(@, id), !.ret = Null])

\* a caller reads guild.me
ReadMe ==
    /\ kind = "Guild"
    /\ MeStep("me", entity.user, GuildMe(entity))

NextMe == MemberEvent \/ MemberRemove \/ ReadMe

SpecMe == InitMe /\ [][NextMe]_vars

\* ------------------------------------------------------------ SpecEditable:
\* callers read role.editable of the roles of a guild, for every setting of
\* the roles' positions, permissions and managed flags, of the roles the
\* client's member holds and of the owner

\* data.permissions of a role: nothing, MANAGE_ROLES, ADMINISTRATOR
EditablePermissionStrings == {<<0>>, <<2, 6, 8, 4, 3, 5, 4, 5, 6>>, <<8>>}

\* the payloads of the roles other than the everyone role
EditableRoleData(id) ==
    {[id |-> id, position |-> p, managed |-> mg, permissions |-> s] :
        p \in {1, 2}, mg \in {False, True}, s \in EditablePermissionStrings}

InitEditable ==
    /\ \E everyone \in {<<0>>, <<2, 6, 8, 4, 3, 5, 4, 5, 6>>}, owner \in MemberIds,
          list \in [1..Cardinality(RoleIds) -> UNION {EditableRoleData(i) : i \in RoleIds}] :
          LET st == GuildConstructor(EmptyState,
                       [id |-> GuildKey, owner_id |-> owner,
                        roles |-> <<[id |-> GuildKey, position |-> 0, managed |-> False,
                                     permissions |-> everyone]>> \o list])
          IN
          /\ \A i \in DOMAIN list : list[i]["id"] = i
          /\ bitfields = st.bitfields
          /\ roleObjs = st.roleObjs
          /\ rolesCache = st.rolesCache
          /\ guild = st.guild
    /\ ret = Null
    /\ err = ""
    /\ last = [op |-> "init", id |-> Undefined]
    /\ entity = EmptyData
    /\ kind = "Role"
    /\ keys = {}
    /\ inflight = {}
    /\ channels = EmptyData
    /\ now = 0
    /\ \E held \in SUBSET RoleIds :
          member = [id |-> Me, roles |-> held, communicationDisabledUntilTimestamp |-> Null]

\* a caller reads role.editable of a cached role
ReadEditable ==
    \E id \in DOMAIN rolesCache :
        /\ ret' = RoleEditable(State, rolesCache[id], member)
        /\ err' = ""
        /\ PermsStep("editable", rolesCache[id])

NextEditable == ReadEditable

SpecEditable == InitEditable /\ [][NextEditable]_vars

\* ------------------------------------------------------------ claims of Spec

\* C3: reference stability. Whatever the operation, a role that is a key of
\* guild.roles.cache before and after it is the same instance before and
\* after: known roles are updated in place, never replaced by a new
\* instance (a Guild patch carrying `roles` included).
C3_ReferenceStability ==
    [][\A k \in DOMAIN rolesCache \cap DOMAIN rolesCache' :
          rolesCache'[k] = rolesCache[k]]_vars

\* C4: cache identity stability. An add with cache=true returns the
\* instance the cache then holds under the payload's id; when the id was
\* already a key (an earlier add, and no removal since) it returns the
\* instance that was there and adds no entry; two adds in a row for the same
\* id return the same instance.
C4_AddIdentityStable ==
    [][(last'.op = "add" /\ last'.cache) =>
          /\ last'.id \in DOMAIN rolesCache'
          /\ rolesCache'[last'.id] = ret'
          /\ last'.id \in DOMAIN rolesCache =>
                /\ ret' = rolesCache[last'.id]
                /\ DOMAIN rolesCache' = DOMAIN rolesCache
          /\ (last.op = "add" /\ last.cache /\ last.id = last'.id) => ret' = ret]_vars

\* C4 witness: the second of two adds in a row for the same id returned the
\* one cached instance
C4_Witness ==
    /\ last.op = "add" /\ last.cache /\ last.hit /\ last.id = 1
    /\ Len(roleObjs) = 1
    /\ roleObjs[1].rawPosition \in Positions
    /\ DOMAIN rolesCache = {1}
    /\ ret = rolesCache[1]

\* C5: identity is immutable. Every cached role's id is the key it is
\* cached under (the id it was constructed with), and the guild's id is its
\* key in client.guilds.cache, after any sequence of patches.
C5_IdentityImmutable ==
    /\ \A k \in DOMAIN rolesCache : roleObjs[rolesCache[k]].id = k
    /\ guild.id = GuildKey

\* C7: a first observation without an id is rejected. An add whose payload
\* has no id, for which no entity exists yet, throws MalformedPayload and
\* leaves the heap of roles and the cache as they were.
C7_MalformedPayloadRejected ==
    [][(last'.op = "add" /\ last'.id = Undefined /\ Undefined \notin DOMAIN rolesCache) =>
          /\ err' = "MalformedPayload"
          /\ roleObjs' = roleObjs
          /\ rolesCache' = rolesCache]_vars

\* ------------------------------------------------------------ claims of SpecBits

\* the bitfields a role or the guild exposes
Exposed(objs, g) ==
    ({objs[r].permissions : r \in DOMAIN objs} \cup {g.systemChannelFlags}) \ {Undefined}

\* C8: the permissions of every role and the systemChannelFlags of the
\* guild are frozen instances in every state; a patch that changes which
\* instance is exposed installs an instance that did not exist before; and
\* no operation changes the value of an instance that is exposed.
C8_ExposedBitfieldsFrozen ==
    [][/\ \A b \in Exposed(roleObjs, guild) : bitfields[b].frozen
       /\ \A b \in Exposed(roleObjs', guild') : bitfields'[b].frozen
       /\ \A b \in Exposed(roleObjs', guild') \ Exposed(roleObjs, guild) :
             b \notin DOMAIN bitfields
       /\ \A b \in Exposed(roleObjs, guild) : bitfields'[b] = bitfields[b]]_vars

\* C8 witness: the role was given permissions twice; the instance handed
\* out first still holds its value although a caller tried to change it
C8_Witness ==
    /\ Len(roleObjs) = 1 /\ roleObjs[1].permissions = 2
    /\ bitfields[1] = [bitfield |-> 8, frozen |-> TRUE]
    /\ bitfields[2] = [bitfield |-> 1024, frozen |-> TRUE]
    /\ last.op = "bitAdd" /\ last.id = 1 /\ err = "Immutable"

\* C9: add or remove on a frozen bitfield throws Immutable and leaves
\* every bitfield as it was.
C9_FrozenRejectsMutation ==
    [][(last'.op \in {"bitAdd", "bitRemove"} /\ bitfields[last'.id].frozen) =>
          /\ err' = "Immutable"
          /\ bitfields' = bitfields]_vars

\* C9 witness: a caller tried to remove bits from the frozen permissions of
\* the role
C9_Witness ==
    /\ last.op = "bitRemove" /\ err = "Immutable"
    /\ Len(roleObjs) = 1 /\ roleObjs[1].permissions = last.id
    /\ bitfields[last.id] = [bitfield |-> 8, frozen |-> TRUE]

\* ------------------------------------------------------------ claims of SpecPatch

\* the payload key behind each field Role._patch recognises
RoleFieldKeys ==
    [name |-> "name", color |-> "color", hoist |-> "hoist", rawPosition |-> "position",
     permissions |-> "permissions", managed |-> "managed", mentionable |-> "mentionable",
     icon |-> "icon", unicodeEmoji |-> "unicode_emoji", tags |-> "tags"]

\* C1: a patch of a role leaves every recognised field whose key the payload
\* does not carry at the value it had before the patch
C1_AbsentFieldsPreserved ==
    [][(kind = "Role" /\ last'.op = "patch") =>
         \A f \in DOMAIN RoleFieldKeys :
            RoleFieldKeys[f] \notin DOMAIN last'.data =>
               Observed'.roles[PatchedId][f] = Observed.roles[PatchedId][f]]_vars

FirstWriteFields ==
    {<<"Guild", "maximumMembers", "max_members">>,
     <<"Guild", "maximumPresences", "max_presences">>,
     <<"Guild", "maxVideoChannelUsers", "max_video_channel_users">>,
     <<"Guild", "maxStageVideoChannelUsers", "max_stage_video_channel_users">>,
     <<"Guild", "approximateMemberCount", "approximate_member_count">>,
     <<"Guild", "approximatePresenceCount", "approximate_presence_count">>,
     <<"ClientUser", "mfaEnabled", "mfa_enabled">>}

\* the field of the instance under patch
FieldOf(g, e, f) == IF kind = "Guild" THEN g[f] ELSE e[f]

IdsOf(list) == {list[i]["id"] : i \in DOMAIN list}

\* the cache after the patch holds exactly the ids of the payload's list
\* under key, or is the cache before when the payload has no such list
Replaced(before, after, data, key) ==
    IF Has(data, key) THEN DOMAIN after = IdsOf(data[key]) ELSE after = before

\* C30: a patch of a guild leaves in the caches of its roles, members, stage
\* instances, scheduled events and voice states exactly the ids of the
\* payload's list of them, and leaves a cache as it was when the payload has
\* no such list
C30_CachesReplaced ==
    [][(kind = "Guild" /\ last'.op = "patch") =>
          /\ Replaced(rolesCache, rolesCache', last'.data, "roles")
          /\ Replaced(guild.members, guild'.members, last'.data, "members")
          /\ Replaced(guild.stageInstances, guild'.stageInstances, last'.data,
                      "stage_instances")
          /\ Replaced(guild.scheduledEvents, guild'.scheduledEvents, last'.data,
                      "guild_scheduled_events")
          /\ Replaced(guild.voiceStates, guild'.voiceStates, last'.data, "voice_states")]_vars

\* a patch with an empty list of roles and one member has emptied the cache
\* of roles, where a role constructed by an earlier patch was, and left one
\* member
C30_Witness ==
    /\ kind = "Guild"
    /\ last.op = "patch"
    /\ Has(last.data, "roles")
    /\ last.data["roles"] = <<>>
    /\ rolesCache = EmptyData
    /\ Len(roleObjs) = 1
    /\ Has(last.data, "members")
    /\ DOMAIN guild.members = {1}

\* ------------------------------------------------------------ claims of SpecGuild

\* what the guild's _patch makes of a payload, as a caller observes it
PatchedGuild(data) == GuildPatch(State, data).guild

ExampleRoles ==
    /\ DOMAIN rolesCache = {100, 200, 999}
    /\ roleObjs[rolesCache[200]].rawPosition = 5
    /\ roleObjs[rolesCache[100]].rawPosition = 5
    /\ roleObjs[rolesCache[999]].rawPosition = 3

ExamplePositions ==
    <<RolePosition(State, rolesCache[999]), RolePosition(State, rolesCache[100]),
      RolePosition(State, rolesCache[200])>>

Rank(cache, objs, k) ==
    Cardinality({j \in DOMAIN cache :
        \/ objs[cache[j]].rawPosition < objs[cache[k]].rawPosition
        \/ /\ objs[cache[j]].rawPosition = objs[cache[k]].rawPosition
           /\ objs[cache[j]].id < objs[cache[k]].id})

\* C12: after every step the position of each cached role is its rank among
\* the roles now cached, by their current rawPosition and id; a read of the
\* position returns that rank and writes nothing to the roles or the cache
C12_PositionNeverStale ==
    [][/\ \A k \in DOMAIN rolesCache' :
             RolePosition(State', rolesCache'[k]) = Rank(rolesCache', roleObjs', k)
       /\ last'.op = "position" =>
             /\ roleObjs' = roleObjs
             /\ rolesCache' = rolesCache
             /\ \A k \in DOMAIN rolesCache :
                   rolesCache[k] = last'.id => ret' = Rank(rolesCache, roleObjs, k)]_vars

C12_Witness ==
    /\ last.op = "add"
    /\ last.moved
    /\ last.id = 200
    /\ DOMAIN rolesCache = {100, 200}
    /\ roleObjs[rolesCache[200]].rawPosition = 3
    /\ roleObjs[rolesCache[100]].rawPosition = 5
    /\ RolePosition(State, rolesCache[200]) = 0
    /\ RolePosition(State, rolesCache[100]) = 1

\* the role at reference a ranks below the role at reference b: by position,
\* equal positions by id
RanksBelow(a, b) ==
    \/ RolePosition(State, a) < RolePosition(State, b)
    \/ /\ RolePosition(State, a) = RolePosition(State, b)
       /\ roleObjs[a].id < roleObjs[b].id

\* C14: the result of role.comparePositionTo(other) is negative exactly when
\* the role ranks below the other, positive exactly when the other ranks
\* below the role, and 0 exactly when both have the same position and id;
\* between two cached roles it has the sign of the difference of their ranks
C14_ComparePositionTo ==
    last.op = "compare" =>
       /\ ret < 0 <=> RanksBelow(last.id, last.other)
       /\ ret > 0 <=> RanksBelow(last.other, last.id)
       /\ ret = 0 <=> roleObjs[last.id].id = roleObjs[last.other].id
       /\ \A j, k \in DOMAIN rolesCache :
             (rolesCache[j] = last.id /\ rolesCache[k] = last.other) =>
                /\ ret < 0 <=> Rank(rolesCache, roleObjs, j) < Rank(rolesCache, roleObjs, k)
                /\ ret > 0 <=> Rank(rolesCache, roleObjs, j) > Rank(rolesCache, roleObjs, k)

C14_Witness ==
    /\ last.op = "compare"
    /\ ExampleRoles
    /\ rolesCache[200] = last.id
    /\ rolesCache[100] = last.other
    /\ ret > 0

\* the positions the cached roles report
ReportedPositions == {RolePosition(State, rolesCache[k]) : k \in DOMAIN rolesCache}

\* C32: the positions that the n cached roles report are n different values,
\* the values 0..n-1, whatever their rawPosition values
C32_PositionsDistinct ==
    /\ \A j, k \in DOMAIN rolesCache :
          j # k => RolePosition(State, rolesCache[j]) # RolePosition(State, rolesCache[k])
    /\ ReportedPositions = 0..(Cardinality(DOMAIN rolesCache) - 1)

\* three roles are cached, two of them with the same rawPosition and one
\* with another, and the position read of the last one is 2
C32_Witness ==
    /\ last.op = "position"
    /\ DOMAIN rolesCache = {100, 200, 999}
    /\ roleObjs[rolesCache[100]].rawPosition = 3
    /\ roleObjs[rolesCache[200]].rawPosition = 3
    /\ roleObjs[rolesCache[999]].rawPosition = 5
    /\ last.id = rolesCache[999]
    /\ ret = 2

\* C35: a read of the position through a Role whose id is not a key of the
\* cache returns -1, and through a Role whose id is a key a value from 0 to
\* n-1, n the number of cached roles
C35_DetachedPosition ==
    last.op = "position" =>
        IF roleObjs[last.id].id \in DOMAIN rolesCache
        THEN ret \in 0..(Cardinality(DOMAIN rolesCache) - 1)
        ELSE ret = -1

\* the position was read through a Role that was removed from the cache,
\* while another role is cached
C35_Witness ==
    /\ last.op = "position"
    /\ roleObjs[last.id].id \notin DOMAIN rolesCache
    /\ rolesCache # EmptyData
    /\ ret = -1

\* ------------------------------------------------------------ claims of SpecChannels

\* c orders with ch by type: the same type, or both text or news
CompatibleType(c, ch) ==
    \/ c.type = ch.type
    \/ c.type \in {"GUILD_TEXT", "GUILD_NEWS"} /\ ch.type \in {"GUILD_TEXT", "GUILD_NEWS"}

\* the sequence s as a set
Elements(s) == {s[i] : i \in DOMAIN s}

ReadForCategory == last.op = "sorted" /\ channels[last.id].type = "GUILD_CATEGORY"

\* the keys of s are in the order of rawPosition, then of id
InPositionOrder(s) ==
    \A i, j \in DOMAIN s :
        i < j => \/ channels[s[i]].rawPosition < channels[s[j]].rawPosition
                 \/ /\ channels[s[i]].rawPosition = channels[s[j]].rawPosition
                    /\ s[i] < s[j]

C20_RemoveDeletesOnlyEntry ==
    [][(last'.op \in {"remove", "delete"} /\ err' = "") =>
          /\ roleObjs' = roleObjs
          /\ bitfields' = bitfields
          /\ guild' = guild
          /\ rolesCache' = CacheDelete(rolesCache, last'.id)
          /\ RolesResolve(State, last.id)' = Null]_vars

\* role.delete() has removed a cached role: the handle returned is the role
\* of the id and still reads its rawPosition, resolve(id) returns null
C20_Witness ==
    /\ last.op = "delete"
    /\ err = ""
    /\ last.hit
    /\ roleObjs[ret].id = last.id
    /\ roleObjs[ret].rawPosition # Undefined
    /\ RolesResolve(State, last.id) = Null

\* ------------------------------------------------------------ claims of SpecPerms

\* the overwrites of the channel the permissions are resolved in
Overwrites == channels[VoiceChannelId].permissionOverwrites

\* the overwrite of a subject has SPEAK in allow, in deny
Allows(s) == s \in DOMAIN Overwrites /\ HasFlag(Overwrites[s].allow, Flags.SPEAK)

Denies(s) == s \in DOMAIN Overwrites /\ HasFlag(Overwrites[s].deny, Flags.SPEAK)

\* allowed and not denied by the same overwrite; denied and not allowed by it
OnlyAllows(s) == Allows(s) /\ ~Denies(s)

OnlyDenies(s) == Denies(s) /\ ~Allows(s)

\* the member is cached
MemberCached == Has(member, "id")

\* permissionsFor was read for the member and has resolved its permissions
Resolved == last.op = "permissionsFor" /\ MemberCached

\* the member is the owner, or a held role or the everyone role has ADMINISTRATOR
Exempt ==
    /\ MemberCached
    /\ \/ member.id = guild.ownerId
       \/ \E id \in member.roles \cup {guild.id} : HasFlag(RoleBits(State, id), Flags.ADMINISTRATOR)

\* the member is under a restriction that ends in the future
Restricted ==
    /\ MemberCached
    /\ member.communicationDisabledUntilTimestamp # Null
    /\ member.communicationDisabledUntilTimestamp > now

\* permissionsFor was read and its result has SPEAK
ResolvedSpeak == HasFlag(ret.bitfield, Flags.SPEAK)

\* C15: the permissions resolved in a channel for the guild owner, or for a
\* member one of whose roles (the everyone role included) has ADMINISTRATOR,
\* are all permissions, whatever the overwrites of the channel deny
C15_AdministratorShortCircuit ==
    (Resolved /\ Exempt) => ret.bitfield = AllPermissions

\* an administrator who is not the owner, SPEAK denied to everyone, to the held
\* roles and to the member, resolves to all permissions
C15_Witness ==
    /\ Resolved
    /\ member.id # guild.ownerId
    /\ Exempt
    /\ member.roles = RoleIds
    /\ \A s \in Subjects : OnlyDenies(s)
    /\ ret.bitfield = AllPermissions

\* C16: for a member neither exempt nor restricted the overwrite of the member
\* decides over those of the held roles, and those over the one of everyone:
\* what only the member overwrite denies is denied, what it only allows is
\* granted; without a member overwrite the held roles decide in the same way,
\* and without those the everyone overwrite
C16_OverwritePrecedence ==
    (Resolved /\ ~Exempt /\ ~Restricted) =>
        /\ OnlyDenies(Me) => ~ResolvedSpeak
        /\ OnlyAllows(Me) => ResolvedSpeak
        /\ Me \notin DOMAIN Overwrites =>
            /\ (\E r \in member.roles : OnlyAllows(r)) => ResolvedSpeak
            /\ ((\E r \in member.roles : OnlyDenies(r)) /\ ~\E r \in member.roles : OnlyAllows(r))
                  => ~ResolvedSpeak
            /\ (\A r \in member.roles : r \notin DOMAIN Overwrites) =>
                /\ OnlyDenies(guild.id) => ~ResolvedSpeak
                /\ OnlyAllows(guild.id) => ResolvedSpeak

\* everyone denied, a held role allowed, the member denied: denied
C16_Witness ==
    /\ Resolved
    /\ ~Exempt
    /\ ~Restricted
    /\ OnlyDenies(guild.id)
    /\ \E r \in member.roles : OnlyAllows(r)
    /\ OnlyDenies(Me)
    /\ ~ResolvedSpeak

\* C17: for a member neither exempt nor restricted and without an overwrite of
\* its own, what the overwrite of one held role allows is granted although the
\* overwrite of another held role denies it, whichever of the two roles it is
C17_RoleOverwritesTogether ==
    (/\ Resolved
     /\ ~Exempt
     /\ ~Restricted
     /\ Me \notin DOMAIN Overwrites
     /\ \E r, q \in member.roles : r # q /\ OnlyAllows(r) /\ Denies(q)) => ResolvedSpeak

\* the role of the lower id allows, the role of the higher id denies, nothing
\* else grants SPEAK: granted
C17_Witness ==
    /\ Resolved
    /\ ~Exempt
    /\ ~Restricted
    /\ Me \notin DOMAIN Overwrites
    /\ ~HasFlag(RoleBits(State, guild.id), Flags.SPEAK)
    /\ ~Allows(guild.id)
    /\ \E r, q \in member.roles : r < q /\ OnlyAllows(r) /\ OnlyDenies(q)
    /\ ResolvedSpeak

\* C18: a member under a restriction ending in the future who is not exempt
\* resolves to nothing outside the always available permissions and cannot
\* speak; an exempt member keeps all permissions and can speak
C18_SuspensionOverride ==
    /\ (Resolved /\ Restricted /\ ~Exempt)
          => BitAndNot(ret.bitfield, AlwaysAvailable) = 0
    /\ (Resolved /\ Restricted /\ Exempt) => ret.bitfield = AllPermissions
    /\ (last.op = "speakable" /\ Restricted) => ret = (IF Exempt THEN True ELSE False)

\* the roles grant SPEAK and the member overwrite allows it, the member is
\* restricted: only the always available permission is left
C18_Witness ==
    /\ Resolved
    /\ Restricted
    /\ ~Exempt
    /\ HasFlag(RoleBits(State, guild.id), Flags.SPEAK)
    /\ OnlyAllows(Me)
    /\ ret.bitfield = AlwaysAvailable

ClientPermissions == MemberPermissions(State, channels[last.id], member, now)

\* C26: speakable is false when the member of the client user is not cached,
\* so that no permissions resolve; it is true when the permissions have
\* ADMINISTRATOR, under a restriction too; without ADMINISTRATOR it is true
\* only if communicationDisabledUntilTimestamp is less than the current time
\* (null counting as 0) and the permissions have SPEAK
C26_Speakable ==
    last.op = "speakable" =>
        /\ ~MemberCached => ret = False
        /\ (MemberCached /\ HasFlag(ClientPermissions, Flags.ADMINISTRATOR)) => ret = True
        /\ (MemberCached /\ ~HasFlag(ClientPermissions, Flags.ADMINISTRATOR) /\ ret = True) =>
              /\ ToNumber(member.communicationDisabledUntilTimestamp) < now
              /\ HasFlag(ClientPermissions, Flags.SPEAK)

\* an administrator under a restriction can speak
C26_Witness ==
    /\ last.op = "speakable"
    /\ Restricted
    /\ member.id # guild.ownerId
    /\ HasFlag(ClientPermissions, Flags.ADMINISTRATOR)
    /\ ret = True

\* ------------------------------------------------------------ claims of SpecRolePerms

\* the argument of the last read is an id without a channel in the cache
LookupMiss == ~last.arg.instance /\ last.arg.id \notin DOMAIN channels

\* the argument of the last read is a channel instance of another guild
ForeignInstance == last.arg.instance /\ last.arg.channel.guildId # guild.id

\* C21: role.permissionsIn with an id that is not a key of the channel cache
\* of the role's guild throws GUILD_CHANNEL_RESOLVE and returns nothing; that
\* error is thrown for lookup misses only, and a channel that resolves yields
\* a frozen permission set
C21_LookupMissRejected ==
    last.op = "permissionsIn" =>
        /\ LookupMiss => (err = "GUILD_CHANNEL_RESOLVE" /\ ret = Null)
        /\ err = "GUILD_CHANNEL_RESOLVE" => LookupMiss
        /\ err = "" => ret.frozen

\* an id that is not cached was passed, with and without check of ADMINISTRATOR
C21_Witness ==
    /\ last.op = "permissionsIn"
    /\ LookupMiss
    /\ ~last.checkAdmin
    /\ err = "GUILD_CHANNEL_RESOLVE"
    /\ ret = Null

ConstructedFrom(data) ==
    IF kind = "Guild" THEN GuildConstructor(EmptyState, data).guild
    ELSE VoiceChannelConstructor(data)

\* the instance of the behaviour
Instance == IF kind = "Guild" THEN guild ELSE entity

\* C24: after add is called a second time with the payload of the
\* construction, the instance reads as it did after the construction
C24_ReapplicationAgrees ==
    (last.op = "add" /\ last.fresh /\ last.data = last.first)
        => Instance = ConstructedFrom(last.first)

\* C29: a Guild constructed from a payload flagged unavailable or without
\* channels has available = false; an add whose payload lacks the unavailable
\* key leaves available as it is, and available turns from false to something
\* else only by a payload with unavailable = false
C29_AvailableStaysFalse ==
    [][kind = "Guild" =>
         /\ (/\ last.op = "init"
             /\ (Truthy(Get(last.first, "unavailable")) \/ ~Has(last.first, "channels")))
               => guild.available = False
         /\ guild.available # Undefined
         /\ (last'.op = "add" /\ ~Has(last'.data, "unavailable"))
               => guild'.available = guild.available
         /\ (last'.op = "add" /\ guild.available = False /\ guild'.available # False)
               => (Has(last'.data, "unavailable") /\ last'.data["unavailable"] = False)]_vars

\* the guild was constructed without channels, unavailable not flagged, and
\* has since received a payload without the unavailable key: still false
C29_Witness ==
    /\ kind = "Guild"
    /\ last.op = "add"
    /\ ~Has(last.first, "unavailable")
    /\ ~Has(last.first, "channels")
    /\ last.fresh
    /\ ~Has(last.data, "unavailable")
    /\ Has(last.data, "channels")
    /\ guild.available = False

\* ------------------------------------------------------------ claims of SpecThreads

\* the thread type a call is to send: that of news threads in a news channel;
\* else that of public threads with a start message; else the type option,
\* and that of public threads without one
ExpectedThreadType(channel, o) ==
    IF channel.type = ChannelType.GuildNews THEN JsNumber(ChannelType.GuildNewsThread)
    ELSE IF JsTruthy(o.startMessage) THEN JsNumber(ChannelType.GuildPublicThread)
    ELSE IF JsNullish(o.type) THEN JsNumber(ChannelType.GuildPublicThread)
    ELSE o.type

\* C25: the request create posts carries as type the news-thread type in a
\* news channel, else the public-thread type when a start message is given
\* (one that is not null, undefined or the empty string), else the type
\* option, the public-thread type when that is null or undefined
C25_ThreadTypeSent ==
    (last.op = "create" /\ err = "") =>
        \A request \in inflight : request.type = ExpectedThreadType(entity, last.options)

\* in a text channel, a start message and the private type were given: the
\* request carries the public type
C25_Witness ==
    /\ last.op = "create"
    /\ err = ""
    /\ entity.type = ChannelType.GuildText
    /\ last.options.startMessage = JsMessage(2)
    /\ last.options.type = JsNumber(ChannelType.GuildPrivateThread)
    /\ \E request \in inflight : request.type = JsNumber(ChannelType.GuildPublicThread)

\* an option is given: it is neither undefined nor null
Given(x) == ~JsNullish(x)

\* the options a call is to reject: a type given that is neither a string nor
\* a number, or a start message given that resolves to no message id
InvalidOptions(o) ==
    \/ Given(o.type) /\ o.type.typeof \notin {"string", "number"}
    \/ Given(o.startMessage) /\ ~JsTruthy(MessagesResolveId(o.startMessage))

\* C36: a call of create with a type given that is neither a string nor a
\* number, or with a start message given that resolves to no message id,
\* throws INVALID_TYPE and posts no request, so that no thread is created
C36_InvalidOptionsRejected ==
    (last.op = "create" /\ InvalidOptions(last.options)) =>
        /\ err = "INVALID_TYPE"
        /\ inflight = {}

\* ------------------------------------------------------------ claims of SpecListeners

\* C27: incrementMaxListeners leaves the limit one above and
\* decrementMaxListeners one below what it was, and both leave a limit of 0
\* at 0
C27_MaxListenersByOne ==
    /\ last.op = "increment" =>
          entity.maxListeners = (IF last.before = 0 THEN 0 ELSE last.before + 1)
    /\ last.op = "decrement" =>
          entity.maxListeners = (IF last.before = 0 THEN 0 ELSE last.before - 1)

\* incrementMaxListeners was called at a limit of 0 and has left it
C27_Witness ==
    /\ last.op = "increment"
    /\ last.before = 0
    /\ entity.maxListeners = 0

\* the last two calls were first, then second
Calls(first, second) == last.previous = first /\ last.op = second

\* C34 as stated: decrementMaxListeners undoes incrementMaxListeners and
\* incrementMaxListeners undoes decrementMaxListeners from every limit, and
\* neither brings a limit other than 0 to 0
C34_MutualInverses ==
    /\ Calls("increment", "decrement") => entity.maxListeners = last.start
    /\ Calls("decrement", "increment") => entity.maxListeners = last.start
    /\ (last.op \in {"increment", "decrement"} /\ last.before # 0) =>
          entity.maxListeners # 0

\* C34 amended: decrementMaxListeners undoes incrementMaxListeners from every
\* limit; incrementMaxListeners undoes decrementMaxListeners from every limit
\* but 1, where the decrement leaves 0 and the increment leaves it at 0; a
\* limit other than 0 comes to 0 only by a decrement at 1
C34_InversesButAtOne ==
    /\ Calls("increment", "decrement") => entity.maxListeners = last.start
    /\ Calls("decrement", "increment") =>
          entity.maxListeners = (IF last.start = 1 THEN 0 ELSE last.start)
    /\ (last.op \in {"increment", "decrement"} /\ last.before # 0
          /\ entity.maxListeners = 0) =>
          (last.op = "decrement" /\ last.before = 1)

\* decrementMaxListeners at a limit of 1 and then incrementMaxListeners have
\* left the limit at 0
C34_Witness ==
    /\ Calls("decrement", "increment")
    /\ last.start = 1
    /\ last.before = 0
    /\ entity.maxListeners = 0

\* ------------------------------------------------------------ claims of SpecMe

\* the instances constructed for the client user
InstancesOfMe(g) == {r \in DOMAIN g.memberObjs : g.memberObjs[r].id = g.user}

ClientRoleIds == member.roles \cup {guild.id}

\* the client's member has the permission to manage roles: it is the owner,
\* or one of its roles grants MANAGE_ROLES or ADMINISTRATOR
ClientManagesRoles ==
    \/ member.id = guild.ownerId
    \/ \E id \in ClientRoleIds :
          \/ HasBit(RoleBits(State, id), RoleFlags.MANAGE_ROLES)
          \/ HasBit(RoleBits(State, id), RoleFlags.ADMINISTRATOR)

\* the position of the highest role of the client's member
ClientHighestPosition ==
    CHOOSE p \in {RolePosition(State, rolesCache[id]) : id \in ClientRoleIds} :
        \A id \in ClientRoleIds : RolePosition(State, rolesCache[id]) <= p

\* C33: role.editable is false for a managed role and when the client's
\* member has not the permission to manage roles; else it is true exactly
\* when the position of the highest role of the client's member is above
\* the position of the role, so that it is false for that highest role
C33_Editable ==
    last.op = "editable" =>
        LET role == roleObjs[last.id] IN
        /\ ret \in {False, True}
        /\ (role.managed = True \/ ~ClientManagesRoles) => ret = False
        /\ (role.managed # True /\ ClientManagesRoles) =>
              (ret = True <=> ClientHighestPosition > RolePosition(State, last.id))
        /\ RolePosition(State, last.id) = ClientHighestPosition => ret = False

\* editable was read of the highest role of the client's member, which is
\* not managed, the member having MANAGE_ROLES by another role: it is false,
\* while it is true of the role below
C33_Witness ==
    /\ last.op = "editable"
    /\ member.roles = RoleIds
    /\ member.id # guild.ownerId
    /\ roleObjs[last.id].managed = False
    /\ ClientManagesRoles
    /\ RolePosition(State, last.id) = ClientHighestPosition
    /\ \E id \in RoleIds :
          /\ rolesCache[id] # last.id
          /\ HasBit(RoleBits(State, id), RoleFlags.MANAGE_ROLES)
          /\ RoleEditable(State, rolesCache[id], member) = True
    /\ ret = False

====
